---- MODULE Spec2Model ----
(***************************************************************************)
(* A model of sorts.cpp: the hand-written sorting functions, run one after *)
(* the other by the test harness on copies of the same input vector.       *)
(*                                                                         *)
(* Positions are the offsets of the C++ iterators from begin(c), so they   *)
(* are 0-based as in the source; the vector itself is a TLA+ sequence, and *)
(* the element at position i is c[i + 1].  Elements are records with the   *)
(* key that operator< compares and a tag, the position the element had in  *)
(* the input, which no comparison reads.                                   *)
(***************************************************************************)
EXTENDS Integers, Sequences, FiniteSets, TLC

\* Bounds of the model.
MaxLen == 4
MaxKey == 2
MaxGapLen == 4000

VARIABLES
    v,        \* main: the input vector under test
    k,        \* test_algorithms: index of the function under test
    c,        \* test_one: its copy of the vector, which the function sorts
    pc,       \* program point of the running function
    L,        \* locals of the running sort function
    stack,    \* call stack of a recursive function, or its std::stack
    fr,       \* frame of the helper being executed (merge, partition, ...)
    aux,      \* the mergesorts' auxiliary vector
    faults,   \* accesses the run made outside of what it may touch
    events,   \* what the running function did, as seen from outside
    out       \* test_one: what was reported for the functions already run

vars == <<v, k, c, pc, L, stack, fr, aux, faults, events, out>>

----------------------------------------------------------------------------
\* Elements and vectors.

Keys == 0..MaxKey

Less(x, y) == x.key < y.key

Elem(key, tag) == [key |-> key, tag |-> tag]

\* The vectors main may hand to the tests: every key sequence of the length.
Vectors ==
    UNION {{[i \in 1..n |-> Elem(ks[i], i - 1)] : ks \in [1..n -> Keys]} :
           n \in 0..MaxLen}

At(s, i) == s[i + 1]

Put(s, i, x) == [s EXCEPT ![i + 1] = x]

iter_swap(s, i, j) == [s EXCEPT ![i + 1] = s[j + 1], ![j + 1] = s[i + 1]]

InVec(S) == S \subseteq 0..(Len(c) - 1)

NoLocals == [none |-> 0]

is_sorted(s) == \A i \in 1..(Len(s) - 1) : ~Less(s[i + 1], s[i])

----------------------------------------------------------------------------
\* The test harness.

\* The functions in the order test_insertion_sorts, test_other_slow and
\* test_fast hand them to test_algorithms (without the -S flag).
Order ==
    <<"insertion_sort", "insertion_sort_byswap", "binary_insertion_sort",
      "binary_insertion_sort_byrotate",
      "selection_sort", "bubble_sort", "bubble_sort_nonadaptive",
      "bubble_sort_maxadaptive", "gnome_sort",
      "shellsort_hibbard", "shellsort_3smooth", "shellsort_sedgewick",
      "shellsort_tokuda", "shellsort_quasi_ciura",
      "mergesort_topdown", "mergesort_topdown_iterative",
      "mergesort_bottomup_iterative",
      "heapsort", "heapsort_byswap",
      "quicksort_lomuto_simple", "quicksort_lomuto_simple_iterative",
      "quicksort_lomuto", "quicksort_lomuto_iterative",
      "quicksort_hoare", "quicksort_hoare_iterative",
      "stdlib_heapsort", "stdlib_mergesort", "stdlib_introsort",
      "stdlib_qsort">>

NumAlgs == Len(Order)

\* An access outside the vector: undefined behaviour, after which the model
\* follows the run no further.
Fault(what) ==
    /\ faults' = faults \cup {what}
    /\ pc' = "fault"
    /\ UNCHANGED <<v, k, c, L, stack, fr, aux, events, out>>

\* A step that reads or writes the positions S of the vector.
Access(S, step) == IF InVec(S) THEN step ELSE Fault("out_of_range")

\* test_one up to the call f(begin(c), end(c)): c is a copy of the vector.
test_one_call ==
    /\ pc = "test_one"
    /\ k <= NumAlgs
    /\ c' = v
    /\ pc' = Order[k]
    /\ L' = NoLocals
    /\ stack' = <<>>
    /\ fr' = NoLocals
    /\ aux' = <<>>
    /\ events' = <<>>
    /\ UNCHANGED <<v, k, faults, out>>

\* test_one after the call: the content and the is_sorted verdict are
\* printed, and test_algorithms goes on to the next function.
test_one_return ==
    /\ pc = "return"
    /\ out' = Append(out, [f |-> Order[k], c |-> c, ok |-> is_sorted(c),
                           events |-> events])
    /\ k' = k + 1
    /\ pc' = "test_one"
    /\ UNCHANGED <<v, c, L, stack, fr, aux, faults, events>>

----------------------------------------------------------------------------
\* insertion_sort

\* insertion_sort as it would be without the test first == last.
insertion_sort_unchecked ==
    /\ pc = "insertion_sort"
    /\ pc' = "insertion_sort_for"
    /\ L' = [right |-> 1]
    /\ UNCHANGED <<v, k, c, stack, fr, aux, faults, events, out>>

insertion_sort ==
    /\ pc = "insertion_sort"
    /\ IF Len(c) = 0
         THEN pc' = "return" /\ L' = L
         ELSE pc' = "insertion_sort_for" /\ L' = [right |-> 1]
    /\ UNCHANGED <<v, k, c, stack, fr, aux, faults, events, out>>

insertion_sort_for ==
    /\ pc = "insertion_sort_for"
    /\ IF L.right = Len(c)
         THEN /\ pc' = "return"
              /\ UNCHANGED <<L, faults>>
         ELSE Access({L.right},
                /\ L' = [right |-> L.right, elem |-> At(c, L.right),
                         left |-> L.right]
                /\ pc' = "insertion_sort_shift"
                /\ UNCHANGED faults)
    /\ UNCHANGED <<v, k, c, stack, fr, aux, events, out>>

insertion_sort_shift ==
    /\ pc = "insertion_sort_shift"
    /\ IF L.left # 0
         THEN Access({L.left - 1, L.left},
                IF Less(L.elem, At(c, L.left - 1))
                  THEN /\ c' = Put(c, L.left, At(c, L.left - 1))
                       /\ L' = [L EXCEPT !.left = L.left - 1]
                       /\ UNCHANGED <<pc, faults>>
                  ELSE /\ c' = Put(c, L.left, L.elem)
                       /\ L' = [right |-> L.right + 1]
                       /\ pc' = "insertion_sort_for"
                       /\ UNCHANGED faults)
         ELSE Access({L.left},
                /\ c' = Put(c, L.left, L.elem)
                /\ L' = [right |-> L.right + 1]
                /\ pc' = "insertion_sort_for"
                /\ UNCHANGED faults)
    /\ UNCHANGED <<v, k, stack, fr, aux, events, out>>

----------------------------------------------------------------------------
\* insertion_sort_byswap

insertion_sort_byswap ==
    /\ pc = "insertion_sort_byswap"
    /\ IF Len(c) = 0
         THEN pc' = "return" /\ L' = L
         ELSE pc' = "insertion_sort_byswap_for" /\ L' = [right |-> 1, left |-> 1]
    /\ UNCHANGED <<v, k, c, stack, fr, aux, faults, events, out>>

\* One test of the inner loop's condition, with the swap or the step of the
\* outer loop that follows it.
insertion_sort_byswap_for ==
    /\ pc = "insertion_sort_byswap_for"
    /\ IF L.right = Len(c)
         THEN /\ pc' = "return"
              /\ UNCHANGED <<c, L, faults>>
         ELSE IF L.left # 0
           THEN Access({L.left - 1, L.left},
                  IF Less(At(c, L.left), At(c, L.left - 1))
                    THEN /\ c' = iter_swap(c, L.left, L.left - 1)
                         /\ L' = [L EXCEPT !.left = L.left - 1]
                         /\ UNCHANGED <<pc, faults>>
                    ELSE /\ L' = [right |-> L.right + 1, left |-> L.right + 1]
                         /\ UNCHANGED <<c, pc, faults>>)
           ELSE /\ L' = [right |-> L.right + 1, left |-> L.right + 1]
                /\ UNCHANGED <<c, pc, faults>>
    /\ UNCHANGED <<v, k, stack, fr, aux, events, out>>

----------------------------------------------------------------------------
\* binary_insertion_sort and binary_insertion_sort_byrotate

\* upper_bound as it would be if std::lower_bound had been called: the
\* first position whose element is not less than val.
RECURSIVE lower_bound_search(_, _, _, _)
lower_bound_search(s, first, len, val) ==
    IF len <= 0 THEN first
    ELSE LET half == len \div 2
             mid == first + half
         IN IF Less(At(s, mid), val)
              THEN lower_bound_search(s, mid + 1, len - half - 1, val)
              ELSE lower_bound_search(s, first, half, val)

lower_bound(s, first, last, val) == lower_bound_search(s, first, last - first, val)

\* std::upper_bound(first, last, val): the binary search for the first
\* position of [first, last) whose element val is less than.
RECURSIVE upper_bound_search(_, _, _, _)
upper_bound_search(s, first, len, val) ==
    IF len <= 0 THEN first
    ELSE LET half == len \div 2
             mid == first + half
         IN IF Less(val, At(s, mid))
              THEN upper_bound_search(s, first, half, val)
              ELSE upper_bound_search(s, mid + 1, len - half - 1, val)

upper_bound(s, first, last, val) == upper_bound_search(s, first, last - first, val)

\* std::move_backward(first, last, d_last): [first, last) moved so that it
\* ends at d_last, the last element first.
RECURSIVE move_backward(_, _, _, _)
move_backward(s, first, last, d_last) ==
    IF first = last THEN s
    ELSE move_backward(Put(s, d_last - 1, At(s, last - 1)), first, last - 1,
                       d_last - 1)

\* std::rotate(first, n_first, last): the element at n_first becomes the
\* first of [first, last), and the one before it the last.
rotate(s, first, n_first, last) ==
    [i \in 1..Len(s) |->
        IF i - 1 < first \/ i - 1 >= last THEN s[i]
        ELSE IF i - 1 < first + (last - n_first)
               THEN s[i + (n_first - first)]
               ELSE s[i - (last - n_first)]]

binary_insertion_sort ==
    /\ pc = "binary_insertion_sort"
    /\ IF Len(c) = 0
         THEN pc' = "return" /\ L' = L
         ELSE pc' = "binary_insertion_sort_for" /\ L' = [right |-> 1]
    /\ UNCHANGED <<v, k, c, stack, fr, aux, faults, events, out>>

binary_insertion_sort_for ==
    /\ pc = "binary_insertion_sort_for"
    /\ IF L.right = Len(c)
         THEN /\ pc' = "return"
              /\ UNCHANGED <<c, L, faults>>
         ELSE Access(0..L.right,
                LET elem == At(c, L.right)
                    left == upper_bound(c, 0, L.right, elem)
                IN /\ c' = Put(move_backward(c, left, L.right, L.right + 1),
                               left, elem)
                   /\ L' = [right |-> L.right + 1]
                   /\ UNCHANGED <<pc, faults>>)
    /\ UNCHANGED <<v, k, stack, fr, aux, events, out>>

binary_insertion_sort_byrotate ==
    /\ pc = "binary_insertion_sort_byrotate"
    /\ IF Len(c) = 0
         THEN pc' = "return" /\ L' = L
         ELSE pc' = "binary_insertion_sort_byrotate_for" /\ L' = [right |-> 1]
    /\ UNCHANGED <<v, k, c, stack, fr, aux, faults, events, out>>

binary_insertion_sort_byrotate_for ==
    /\ pc = "binary_insertion_sort_byrotate_for"
    /\ IF L.right = Len(c)
         THEN /\ pc' = "return"
              /\ UNCHANGED <<c, L, faults>>
         ELSE Access(0..L.right,
                LET left == upper_bound(c, 0, L.right, At(c, L.right))
                IN /\ c' = rotate(c, left, L.right, L.right + 1)
                   /\ L' = [right |-> L.right + 1]
                   /\ UNCHANGED <<pc, faults>>)
    /\ UNCHANGED <<v, k, stack, fr, aux, events, out>>

----------------------------------------------------------------------------
\* selection_sort

\* std::min_element(first, last): the first position of [first, last) that
\* holds a smallest element (last when the range is empty).
RECURSIVE min_element_from(_, _, _, _)
min_element_from(s, smallest, cur, last) ==
    IF cur >= last THEN smallest
    ELSE min_element_from(s, IF Less(At(s, cur), At(s, smallest))
                               THEN cur ELSE smallest, cur + 1, last)

min_element(s, first, last) ==
    IF first = last THEN last ELSE min_element_from(s, first, first + 1, last)

selection_sort ==
    /\ pc = "selection_sort"
    /\ pc' = "selection_sort_for"
    /\ L' = [first |-> 0]
    /\ UNCHANGED <<v, k, c, stack, fr, aux, faults, events, out>>

selection_sort_for ==
    /\ pc = "selection_sort_for"
    /\ IF L.first = Len(c)
         THEN /\ pc' = "return"
              /\ UNCHANGED <<c, L, faults>>
         ELSE Access(L.first..(Len(c) - 1),
                /\ c' = iter_swap(c, min_element(c, L.first, Len(c)), L.first)
                /\ L' = [first |-> L.first + 1]
                /\ UNCHANGED <<pc, faults>>)
    /\ UNCHANGED <<v, k, stack, fr, aux, events, out>>

----------------------------------------------------------------------------
\* bubble_sort

bubble_sort ==
    /\ pc = "bubble_sort"
    /\ IF Len(c) = 0
         THEN pc' = "return" /\ L' = L
         ELSE pc' = "bubble_sort_for" /\ L' = [again |-> TRUE]
    /\ UNCHANGED <<v, k, c, stack, fr, aux, faults, events, out>>

\* bubble_sort_for as it would be if again were not reset before a pass.
bubble_sort_for_never_reset ==
    /\ pc = "bubble_sort_for"
    /\ IF L.again
         THEN /\ L' = [again |-> TRUE, left |-> 0, right |-> 1]
              /\ pc' = "bubble_sort_pass"
         ELSE /\ pc' = "return"
              /\ L' = L
    /\ UNCHANGED <<v, k, c, stack, fr, aux, faults, events, out>>

\* The outer loop: another pass while the last one swapped.
bubble_sort_for ==
    /\ pc = "bubble_sort_for"
    /\ IF L.again
         THEN /\ L' = [again |-> FALSE, left |-> 0, right |-> 1]
              /\ pc' = "bubble_sort_pass"
         ELSE /\ pc' = "return"
              /\ L' = L
    /\ UNCHANGED <<v, k, c, stack, fr, aux, faults, events, out>>

bubble_sort_pass ==
    /\ pc = "bubble_sort_pass"
    /\ IF L.right # Len(c)
         THEN Access({L.left, L.right},
                LET swap == Less(At(c, L.right), At(c, L.left))
                IN /\ c' = IF swap THEN iter_swap(c, L.left, L.right) ELSE c
                   /\ L' = [again |-> L.again \/ swap, left |-> L.left + 1,
                            right |-> L.right + 1]
                   /\ UNCHANGED <<pc, faults>>)
         ELSE /\ pc' = "bubble_sort_for"
              /\ UNCHANGED <<c, L, faults>>
    /\ UNCHANGED <<v, k, stack, fr, aux, events, out>>

----------------------------------------------------------------------------
\* bubble_sort_nonadaptive

bubble_sort_nonadaptive ==
    /\ pc = "bubble_sort_nonadaptive"
    /\ pc' = "bubble_sort_nonadaptive_for"
    /\ L' = [last |-> Len(c)]
    /\ UNCHANGED <<v, k, c, stack, fr, aux, faults, events, out>>

bubble_sort_nonadaptive_for ==
    /\ pc = "bubble_sort_nonadaptive_for"
    /\ IF L.last # 0
         THEN /\ L' = [last |-> L.last, left |-> 0, right |-> 1]
              /\ pc' = "bubble_sort_nonadaptive_pass"
         ELSE /\ pc' = "return"
              /\ L' = L
    /\ UNCHANGED <<v, k, c, stack, fr, aux, faults, events, out>>

bubble_sort_nonadaptive_pass ==
    /\ pc = "bubble_sort_nonadaptive_pass"
    /\ IF L.right # L.last
         THEN Access({L.left, L.right},
                /\ c' = IF Less(At(c, L.right), At(c, L.left))
                          THEN iter_swap(c, L.left, L.right) ELSE c
                /\ L' = [L EXCEPT !.left = L.left + 1, !.right = L.right + 1]
                /\ UNCHANGED <<pc, faults>>)
         ELSE /\ pc' = "bubble_sort_nonadaptive_for"
              /\ L' = [last |-> L.last - 1]
              /\ UNCHANGED <<c, faults>>
    /\ UNCHANGED <<v, k, stack, fr, aux, events, out>>

----------------------------------------------------------------------------
\* bubble_sort_maxadaptive

bubble_sort_maxadaptive ==
    /\ pc = "bubble_sort_maxadaptive"
    /\ pc' = "bubble_sort_maxadaptive_while"
    /\ L' = [last |-> Len(c)]
    /\ UNCHANGED <<v, k, c, stack, fr, aux, faults, events, out>>

bubble_sort_maxadaptive_while ==
    /\ pc = "bubble_sort_maxadaptive_while"
    /\ IF L.last # 0
         THEN /\ L' = [last |-> L.last, last_swapped |-> 0, left |-> 0,
                       right |-> 1]
              /\ pc' = "bubble_sort_maxadaptive_pass"
         ELSE /\ pc' = "return"
              /\ L' = L
    /\ UNCHANGED <<v, k, c, stack, fr, aux, faults, events, out>>

bubble_sort_maxadaptive_pass ==
    /\ pc = "bubble_sort_maxadaptive_pass"
    /\ IF L.right # L.last
         THEN Access({L.left, L.right},
                LET swap == Less(At(c, L.right), At(c, L.left))
                IN /\ c' = IF swap THEN iter_swap(c, L.left, L.right) ELSE c
                   /\ L' = [L EXCEPT !.left = L.left + 1,
                                     !.right = L.right + 1,
                                     !.last_swapped =
                                         IF swap THEN L.right ELSE @]
                   /\ UNCHANGED <<pc, faults>>)
         ELSE /\ pc' = "bubble_sort_maxadaptive_while"
              /\ L' = [last |-> L.last_swapped]
              /\ UNCHANGED <<c, faults>>
    /\ UNCHANGED <<v, k, stack, fr, aux, events, out>>

----------------------------------------------------------------------------
\* gnome_sort

gnome_sort ==
    /\ pc = "gnome_sort"
    /\ pc' = "gnome_sort_for"
    /\ L' = [cur |-> 0]
    /\ UNCHANGED <<v, k, c, stack, fr, aux, faults, events, out>>

gnome_sort_for ==
    /\ pc = "gnome_sort_for"
    /\ IF L.cur = Len(c)
         THEN /\ pc' = "return"
              /\ UNCHANGED <<c, L, faults>>
         ELSE IF L.cur = 0
           THEN /\ L' = [cur |-> L.cur + 1]
                /\ UNCHANGED <<c, pc, faults>>
           ELSE Access({L.cur - 1, L.cur},
                  IF ~Less(At(c, L.cur), At(c, L.cur - 1))
                    THEN /\ L' = [cur |-> L.cur + 1]
                         /\ UNCHANGED <<c, pc, faults>>
                    ELSE /\ c' = iter_swap(c, L.cur, L.cur - 1)
                         /\ L' = [cur |-> L.cur - 1]
                         /\ UNCHANGED <<pc, faults>>)
    /\ UNCHANGED <<v, k, stack, fr, aux, events, out>>

----------------------------------------------------------------------------
\* The gap sequences of detail::gaps, in the order the generators emit them.

RECURSIVE hibbard_from(_, _, _)
hibbard_from(len, kk, emitted) ==
    LET g == 2^kk - 1
    IN IF g >= len THEN emitted
       ELSE hibbard_from(len, kk + 1, Append(emitted, g))

hibbard(len) == hibbard_from(len, 1, <<>>)

RECURSIVE three_smooth_from(_, _, _, _, _)
three_smooth_from(len, smooth, co_two_pos, co_three_pos, emitted) ==
    IF ~(smooth[Len(smooth)] < len) THEN emitted
    ELSE LET two_multiple == At(smooth, co_two_pos) * 2
             three_multiple == At(smooth, co_three_pos) * 3
             least == IF three_multiple < two_multiple
                        THEN three_multiple ELSE two_multiple
         IN three_smooth_from(
                len, Append(smooth, least),
                IF two_multiple <= three_multiple
                  THEN co_two_pos + 1 ELSE co_two_pos,
                IF three_multiple <= two_multiple
                  THEN co_three_pos + 1 ELSE co_three_pos,
                Append(emitted, smooth[Len(smooth)]))

three_smooth(len) == three_smooth_from(len, <<1>>, 0, 0, <<>>)

\* sedgewick_from as it would be if the first shift were by i + 1 and its
\* result doubled: (one << (i + 1)) * 2.
RECURSIVE sedgewick_from_shift_doubled(_, _, _)
sedgewick_from_shift_doubled(len, i, emitted) ==
    LET g == 2^(i + 1) * 2 + 2^i * 3 + 1
    IN IF g >= len THEN emitted
       ELSE sedgewick_from_shift_doubled(len, i + 1, Append(emitted, g))

RECURSIVE sedgewick_from(_, _, _)
sedgewick_from(len, i, emitted) ==
    LET g == 2^((i + 1) * 2) + 2^i * 3 + 1
    IN IF g >= len THEN emitted
       ELSE sedgewick_from(len, i + 1, Append(emitted, g))

sedgewick(len) == IF len = 0 THEN <<>> ELSE sedgewick_from(len, 0, <<1>>)

\* h is the double q + r / den with r < den; den is a power of 4, and the
\* arithmetic of the doubles is exact for the lengths modelled.
RECURSIVE tokuda_from(_, _, _, _, _)
tokuda_from(len, q, r, den, emitted) ==
    LET g == IF r = 0 THEN q ELSE q + 1
        num == ((9 * q) % 4) * den + 9 * r
    IN IF g >= len THEN emitted
       ELSE tokuda_from(len, (9 * q) \div 4 + 1 + num \div (4 * den),
                        num % (4 * den), 4 * den, Append(emitted, g))

tokuda(len) == tokuda_from(len, 1, 0, 1, <<>>)

ciura_gaps == <<1, 4, 10, 23, 57, 132, 301, 701, 1750>>

\* The extension of the table: g * 2.25 cut to an integer.
RECURSIVE quasi_ciura_extend(_, _, _)
quasi_ciura_extend(len, g, emitted) ==
    LET next == (g * 9) \div 4
    IN IF next < len THEN quasi_ciura_extend(len, next, Append(emitted, next))
       ELSE emitted

RECURSIVE quasi_ciura_from(_, _, _)
quasi_ciura_from(len, i, emitted) ==
    IF i > Len(ciura_gaps)
      THEN quasi_ciura_extend(len, ciura_gaps[Len(ciura_gaps)], emitted)
      ELSE IF ciura_gaps[i] >= len THEN emitted
           ELSE quasi_ciura_from(len, i + 1, Append(emitted, ciura_gaps[i]))

quasi_ciura(len) == quasi_ciura_from(len, 1, <<>>)

----------------------------------------------------------------------------
\* detail::shellsort and detail::insertion_sort_subsequence

\* detail::shellsort up to the for_each: the gaps are generated for the
\* length of the range, and the assertion on the first of them is made.
shellsort(gaps) ==
    /\ IF gaps = <<>> \/ gaps[1] = 1
         THEN /\ L' = [gaps |-> gaps, g |-> Len(gaps)]
              /\ pc' = "shellsort_for_each"
              /\ UNCHANGED <<faults>>
         ELSE /\ faults' = faults \cup {"assert"}
              /\ pc' = "fault"
              /\ L' = L
    /\ UNCHANGED <<v, k, c, stack, fr, aux, events, out>>

shellsort_hibbard == pc = "shellsort_hibbard" /\ shellsort(hibbard(Len(c)))

shellsort_3smooth == pc = "shellsort_3smooth" /\ shellsort(three_smooth(Len(c)))

shellsort_sedgewick ==
    pc = "shellsort_sedgewick" /\ shellsort(sedgewick(Len(c)))

shellsort_tokuda == pc = "shellsort_tokuda" /\ shellsort(tokuda(Len(c)))

shellsort_quasi_ciura ==
    pc = "shellsort_quasi_ciura" /\ shellsort(quasi_ciura(Len(c)))

\* The for_each over the gaps in reverse: L.g gaps are still to be applied,
\* the next one is gaps[L.g].
shellsort_for_each ==
    /\ pc = "shellsort_for_each"
    /\ IF L.g = 0
         THEN /\ pc' = "return"
              /\ L' = L
         ELSE /\ pc' = "shellsort_for"
              /\ L' = [gaps |-> L.gaps, g |-> L.g, gap |-> L.gaps[L.g],
                       bound |-> L.gaps[L.g], start |-> 0]
    /\ UNCHANGED <<v, k, c, stack, fr, aux, faults, events, out>>

\* shellsort_for as it would be if only the subsequence that starts at first
\* were sorted.
shellsort_for_first_start_only ==
    /\ pc = "shellsort_for"
    /\ IF L.start = 0
         THEN /\ pc' = "insertion_sort_subsequence_for"
              /\ fr' = [first |-> L.start, len |-> Len(c) - L.start,
                        gap |-> L.gap, right |-> L.gap]
              /\ L' = L
         ELSE /\ pc' = "shellsort_for_each"
              /\ L' = [gaps |-> L.gaps, g |-> L.g - 1]
              /\ fr' = fr
    /\ UNCHANGED <<v, k, c, stack, aux, faults, events, out>>

\* The lambda's loop over the start positions below first + gap.
shellsort_for ==
    /\ pc = "shellsort_for"
    /\ IF L.start # L.bound
         THEN /\ pc' = "insertion_sort_subsequence_for"
              /\ fr' = [first |-> L.start, len |-> Len(c) - L.start,
                        gap |-> L.gap, right |-> L.gap]
              /\ L' = L
         ELSE /\ pc' = "shellsort_for_each"
              /\ L' = [gaps |-> L.gaps, g |-> L.g - 1]
              /\ fr' = fr
    /\ UNCHANGED <<v, k, c, stack, aux, faults, events, out>>

insertion_sort_subsequence_for ==
    /\ pc = "insertion_sort_subsequence_for"
    /\ IF fr.right < fr.len
         THEN Access({fr.first + fr.right},
                /\ fr' = [first |-> fr.first, len |-> fr.len, gap |-> fr.gap,
                          right |-> fr.right,
                          elem |-> At(c, fr.first + fr.right),
                          left |-> fr.right]
                /\ pc' = "insertion_sort_subsequence_shift"
                /\ UNCHANGED <<L, faults>>)
         ELSE /\ pc' = "shellsort_for"
              /\ L' = [L EXCEPT !.start = L.start + 1]
              /\ fr' = NoLocals
              /\ UNCHANGED faults
    /\ UNCHANGED <<v, k, c, stack, aux, events, out>>

insertion_sort_subsequence_shift ==
    /\ pc = "insertion_sort_subsequence_shift"
    /\ LET place ==
            /\ c' = Put(c, fr.first + fr.left, fr.elem)
            /\ fr' = [first |-> fr.first, len |-> fr.len, gap |-> fr.gap,
                      right |-> fr.right + fr.gap]
            /\ pc' = "insertion_sort_subsequence_for"
            /\ UNCHANGED faults
       IN IF fr.left # 0
            THEN Access({fr.first + fr.left - fr.gap, fr.first + fr.left},
                   IF Less(fr.elem, At(c, fr.first + fr.left - fr.gap))
                     THEN /\ c' = Put(c, fr.first + fr.left,
                                      At(c, fr.first + fr.left - fr.gap))
                          /\ fr' = [fr EXCEPT !.left = fr.left - fr.gap]
                          /\ UNCHANGED <<pc, faults>>
                     ELSE place)
            ELSE Access({fr.first + fr.left}, place)
    /\ UNCHANGED <<v, k, L, stack, aux, events, out>>

----------------------------------------------------------------------------
\* detail::possibly_unsorted, detail::midpoint and detail::merge

\* possibly_unsorted as it would be if two elements counted as sorted.
possibly_unsorted_over_two(first, last) ==
    first # last /\ first + 1 # last /\ first + 2 # last

possibly_unsorted(first, last) == first # last /\ first + 1 # last

midpoint(first, last) == first + (last - first) \div 2

\* The frame of a call merge(aux, first1, first2, last2) that returns to ret.
MergeCall(first1, first2, last2, ret) ==
    [first1 |-> first1, first2 |-> first2, last2 |-> last2,
     cur1 |-> first1, cur2 |-> first2, ret |-> ret]

MergeEvent(first1, first2, last2) ==
    [e |-> "merge", at |-> <<first1, first2, last2>>]

\* One test of the while loop, with the push_back that follows it.
merge_while ==
    /\ pc = "merge"
    /\ IF fr.cur1 # fr.first2 /\ fr.cur2 # fr.last2
         THEN Access({fr.cur1, fr.cur2},
                LET from2 == Less(At(c, fr.cur2), At(c, fr.cur1))
                IN /\ aux' = Append(aux, At(c, IF from2 THEN fr.cur2
                                                        ELSE fr.cur1))
                   /\ fr' = IF from2 THEN [fr EXCEPT !.cur2 = fr.cur2 + 1]
                                     ELSE [fr EXCEPT !.cur1 = fr.cur1 + 1]
                   /\ UNCHANGED <<pc, faults>>)
         ELSE /\ pc' = "merge_move"
              /\ UNCHANGED <<fr, aux, faults>>
    /\ UNCHANGED <<v, k, c, L, stack, events, out>>

\* merge_move as it would be without the std::move of [cur1, first2).
merge_move_without_rest1 ==
    /\ pc = "merge_move"
    /\ LET rest2 == [i \in 1..(fr.last2 - fr.cur2) |-> At(c, fr.cur2 + i - 1)]
           merged == aux \o rest2
       IN Access((fr.cur2..(fr.last2 - 1))
                    \cup (fr.first1..(fr.first1 + Len(merged) - 1)),
            /\ c' = [i \in 1..Len(c) |->
                        IF i - 1 >= fr.first1 /\ i - 1 < fr.first1 + Len(merged)
                          THEN merged[i - fr.first1] ELSE c[i]]
            /\ aux' = <<>>
            /\ pc' = fr.ret
            /\ fr' = NoLocals
            /\ UNCHANGED faults)
    /\ UNCHANGED <<v, k, L, stack, events, out>>

\* merge_move as it would be without aux.clear().
merge_move_uncleared ==
    /\ pc = "merge_move"
    /\ LET rest1 == [i \in 1..(fr.first2 - fr.cur1) |-> At(c, fr.cur1 + i - 1)]
           rest2 == [i \in 1..(fr.last2 - fr.cur2) |-> At(c, fr.cur2 + i - 1)]
           merged == aux \o rest1 \o rest2
       IN Access((fr.cur1..(fr.first2 - 1)) \cup (fr.cur2..(fr.last2 - 1))
                    \cup (fr.first1..(fr.first1 + Len(merged) - 1)),
            /\ c' = [i \in 1..Len(c) |->
                        IF i - 1 >= fr.first1 /\ i - 1 < fr.first1 + Len(merged)
                          THEN merged[i - fr.first1] ELSE c[i]]
            /\ aux' = merged
            /\ pc' = fr.ret
            /\ fr' = NoLocals
            /\ UNCHANGED faults)
    /\ UNCHANGED <<v, k, L, stack, events, out>>

\* The three std::move calls and the clear: what is left of the two ranges
\* goes to aux, and aux goes back to the span starting at first1.
merge_move ==
    /\ pc = "merge_move"
    /\ LET rest1 == [i \in 1..(fr.first2 - fr.cur1) |-> At(c, fr.cur1 + i - 1)]
           rest2 == [i \in 1..(fr.last2 - fr.cur2) |-> At(c, fr.cur2 + i - 1)]
           merged == aux \o rest1 \o rest2
       IN Access((fr.cur1..(fr.first2 - 1)) \cup (fr.cur2..(fr.last2 - 1))
                    \cup (fr.first1..(fr.first1 + Len(merged) - 1)),
            /\ c' = [i \in 1..Len(c) |->
                        IF i - 1 >= fr.first1 /\ i - 1 < fr.first1 + Len(merged)
                          THEN merged[i - fr.first1] ELSE c[i]]
            /\ aux' = <<>>
            /\ pc' = fr.ret
            /\ fr' = NoLocals
            /\ UNCHANGED faults)
    /\ UNCHANGED <<v, k, L, stack, events, out>>

----------------------------------------------------------------------------
\* mergesort_topdown.  A frame of the call stack is a call of the lambda
\* mergesort_subrange, with the place it has reached.

Frame(first, last) == [first |-> first, last |-> last, at |-> "call"]

Top(s) == s[Len(s)]

Pop(s) == SubSeq(s, 1, Len(s) - 1)

SetTop(s, x) == [s EXCEPT ![Len(s)] = x]

\* A return of the function on top of the call stack, to its caller's
\* place or, from the outermost call, to test_one.
Return(here) ==
    /\ stack' = Pop(stack)
    /\ pc' = IF Len(stack) = 1 THEN "return" ELSE here

mergesort_topdown ==
    /\ pc = "mergesort_topdown"
    /\ aux' = <<>>
    /\ stack' = <<Frame(0, Len(c))>>
    /\ pc' = "mergesort_subrange"
    /\ UNCHANGED <<v, k, c, L, fr, faults, events, out>>

\* Entry of the lambda: nothing to do for a range of fewer than two
\* elements, the call on the left half otherwise.
mergesort_subrange ==
    /\ pc = "mergesort_subrange"
    /\ Top(stack).at = "call"
    /\ LET first1 == Top(stack).first
           last2 == Top(stack).last
           delta == (last2 - first1) \div 2
       IN IF delta = 0
            THEN Return("mergesort_subrange")
            ELSE /\ stack' = Append(SetTop(stack, [Top(stack) EXCEPT !.at = "first"]),
                                    Frame(first1, first1 + delta))
                 /\ pc' = pc
    /\ UNCHANGED <<v, k, c, L, fr, aux, faults, events, out>>

\* After the call on the left half: the call on the right half.
mergesort_subrange_second ==
    /\ pc = "mergesort_subrange"
    /\ Top(stack).at = "first"
    /\ LET first1 == Top(stack).first
           last2 == Top(stack).last
           delta == (last2 - first1) \div 2
       IN stack' = Append(SetTop(stack, [Top(stack) EXCEPT !.at = "second"]),
                          Frame(first1 + delta, last2))
    /\ UNCHANGED <<v, k, c, pc, L, fr, aux, faults, events, out>>

\* After the call on the right half: the merge of the two.
mergesort_subrange_merge ==
    /\ pc = "mergesort_subrange"
    /\ Top(stack).at = "second"
    /\ LET first1 == Top(stack).first
           last2 == Top(stack).last
           delta == (last2 - first1) \div 2
       IN /\ fr' = MergeCall(first1, first1 + delta, last2, "mergesort_subrange")
          /\ events' = Append(events, MergeEvent(first1, first1 + delta, last2))
    /\ stack' = SetTop(stack, [Top(stack) EXCEPT !.at = "merged"])
    /\ pc' = "merge"
    /\ UNCHANGED <<v, k, c, L, aux, faults, out>>

mergesort_subrange_return ==
    /\ pc = "mergesort_subrange"
    /\ Top(stack).at = "merged"
    /\ Return("mergesort_subrange")
    /\ UNCHANGED <<v, k, c, L, fr, aux, faults, events, out>>

----------------------------------------------------------------------------
\* mergesort_topdown_iterative.  The stack is the std::stack intervals.

mergesort_topdown_iterative ==
    /\ pc = "mergesort_topdown_iterative"
    /\ aux' = <<>>
    /\ stack' = <<>>
    /\ L' = [first |-> 0, last |-> Len(c), post_first |-> Len(c),
             post_last |-> Len(c)]
    /\ pc' = "mergesort_topdown_iterative_while"
    /\ UNCHANGED <<v, k, c, fr, faults, events, out>>

mergesort_topdown_iterative_while ==
    /\ pc = "mergesort_topdown_iterative_while"
    /\ pc' = IF L.first # L.last \/ stack # <<>>
               THEN "mergesort_topdown_iterative_for" ELSE "return"
    /\ UNCHANGED <<v, k, c, L, stack, fr, aux, faults, events, out>>

\* mergesort_topdown_iterative_for as it would be if the interval were
\* pushed before the test, the empty one that ends the descent included.
mergesort_topdown_iterative_for_through_empty ==
    /\ pc = "mergesort_topdown_iterative_for"
    /\ stack' = Append(stack, <<L.first, L.last>>)
    /\ IF L.first # L.last
         THEN /\ L' = [L EXCEPT !.last = midpoint(L.first, L.last)]
              /\ pc' = pc
         ELSE /\ pc' = "mergesort_topdown_iterative_top"
              /\ L' = L
    /\ UNCHANGED <<v, k, c, fr, aux, faults, events, out>>

\* Traverse left as far as possible.
mergesort_topdown_iterative_for ==
    /\ pc = "mergesort_topdown_iterative_for"
    /\ IF L.first # L.last
         THEN /\ stack' = Append(stack, <<L.first, L.last>>)
              /\ L' = [L EXCEPT !.last = midpoint(L.first, L.last)]
              /\ pc' = pc
         ELSE /\ pc' = "mergesort_topdown_iterative_top"
              /\ UNCHANGED <<L, stack>>
    /\ UNCHANGED <<v, k, c, fr, aux, faults, events, out>>

\* The interval on top: go to its right branch, or merge its branches.
mergesort_topdown_iterative_top ==
    /\ pc = "mergesort_topdown_iterative_top"
    /\ LET first1 == Top(stack)[1]
           last2 == Top(stack)[2]
           first2 == midpoint(first1, last2)
       IN IF /\ possibly_unsorted(first2, last2)
             /\ (first2 # L.post_first \/ last2 # L.post_last)
            THEN /\ L' = [L EXCEPT !.first = first2, !.last = last2]
                 /\ pc' = "mergesort_topdown_iterative_while"
                 /\ UNCHANGED <<fr, events>>
            ELSE /\ fr' = MergeCall(first1, first2, last2,
                                    "mergesort_topdown_iterative_merged")
                 /\ events' = Append(events, MergeEvent(first1, first2, last2))
                 /\ pc' = "merge"
                 /\ L' = L
    /\ UNCHANGED <<v, k, c, stack, aux, faults, out>>

\* mergesort_topdown_iterative_merged as it would be if the interval merged
\* were not recorded in post_first and post_last.
mergesort_topdown_iterative_merged_unmarked ==
    /\ pc = "mergesort_topdown_iterative_merged"
    /\ stack' = Pop(stack)
    /\ pc' = "mergesort_topdown_iterative_while"
    /\ UNCHANGED <<v, k, c, L, fr, aux, faults, events, out>>

\* After the merge: retreat.
mergesort_topdown_iterative_merged ==
    /\ pc = "mergesort_topdown_iterative_merged"
    /\ L' = [L EXCEPT !.post_first = Top(stack)[1], !.post_last = Top(stack)[2]]
    /\ stack' = Pop(stack)
    /\ pc' = "mergesort_topdown_iterative_while"
    /\ UNCHANGED <<v, k, c, fr, aux, faults, events, out>>

----------------------------------------------------------------------------
\* mergesort_bottomup_iterative

mergesort_bottomup_iterative ==
    /\ pc = "mergesort_bottomup_iterative"
    /\ aux' = <<>>
    /\ L' = [len |-> Len(c), delta1 |-> 1]
    /\ pc' = "mergesort_bottomup_iterative_for"
    /\ UNCHANGED <<v, k, c, stack, fr, faults, events, out>>

\* The loop over the widths.
mergesort_bottomup_iterative_for ==
    /\ pc = "mergesort_bottomup_iterative_for"
    /\ IF L.delta1 < L.len
         THEN /\ L' = [len |-> L.len, delta1 |-> L.delta1, sublen |-> 0,
                       first1 |-> 0, first2 |-> 0, delta2 |-> 0, last2 |-> 0]
              /\ pc' = "mergesort_bottomup_iterative_pairs"
         ELSE /\ pc' = "return"
              /\ L' = L
    /\ UNCHANGED <<v, k, c, stack, fr, aux, faults, events, out>>

\* The loop over the pairs of subranges of one width, up to the merge.
mergesort_bottomup_iterative_pairs ==
    /\ pc = "mergesort_bottomup_iterative_pairs"
    /\ LET sublen == L.sublen + L.delta1
       IN IF sublen < L.len
            THEN LET first2 == L.first1 + L.delta1
                     delta2 == IF L.len - sublen < L.delta1
                                 THEN L.len - sublen ELSE L.delta1
                     last2 == first2 + delta2
                 IN /\ L' = [L EXCEPT !.sublen = sublen, !.first2 = first2,
                                      !.delta2 = delta2, !.last2 = last2]
                    /\ fr' = MergeCall(L.first1, first2, last2,
                                       "mergesort_bottomup_iterative_merged")
                    /\ events' = Append(events,
                                        MergeEvent(L.first1, first2, last2))
                    /\ pc' = "merge"
            ELSE /\ L' = [len |-> L.len, delta1 |-> L.delta1 * 2]
                 /\ pc' = "mergesort_bottomup_iterative_for"
                 /\ UNCHANGED <<fr, events>>
    /\ UNCHANGED <<v, k, c, stack, aux, faults, out>>

mergesort_bottomup_iterative_merged ==
    /\ pc = "mergesort_bottomup_iterative_merged"
    /\ L' = [L EXCEPT !.first1 = L.last2, !.sublen = L.sublen + L.delta2]
    /\ pc' = "mergesort_bottomup_iterative_pairs"
    /\ UNCHANGED <<v, k, c, stack, fr, aux, faults, events, out>>

----------------------------------------------------------------------------
\* detail::pick_child, heapsort and heapsort_byswap

no_child == -1

\* pick_child as it would be if the right child were never looked at.
pick_child_left_only(s, len, parent) ==
    LET left == parent * 2 + 1
    IN IF left >= len THEN no_child ELSE left

\* pick_child as it would be if the right child were taken unless it is
\* less than the left one.
pick_child_right_on_ties(s, len, parent) ==
    LET left == parent * 2 + 1
        right == left + 1
    IN IF left >= len THEN no_child
       ELSE IF right = len \/ Less(At(s, right), At(s, left))
              THEN left ELSE right

pick_child(s, len, parent) ==
    LET left == parent * 2 + 1
        right == left + 1
    IN IF left >= len THEN no_child
       ELSE IF right = len \/ ~Less(At(s, left), At(s, right))
              THEN left ELSE right

\* The positions pick_child reads: the two children when both are there, and
\* nothing when right == len, which is tested first.
pick_child_reads(len, parent) ==
    LET left == parent * 2 + 1
    IN IF left >= len \/ left + 1 = len THEN {} ELSE {left, left + 1}

\* The positions a turn of sift_down's loop reads: those pick_child reads and
\* the child it returns, which is compared with the element sifted.
sift_down_reads(len, parent) ==
    LET left == parent * 2 + 1
    IN pick_child_reads(len, parent)
          \cup (IF left < len THEN {left} ELSE {})

SiftEvent(s) == [e |-> "sift_down", at |-> s]

heapsort ==
    /\ pc = "heapsort"
    /\ IF Len(c) < 2
         THEN pc' = "return" /\ L' = L
         ELSE pc' = "heapsort_for" /\ L' = [len |-> Len(c),
                                            parent |-> Len(c) \div 2]
    /\ UNCHANGED <<v, k, c, stack, fr, aux, faults, events, out>>

\* heapsort_for as it would be if the loop stopped before the root:
\* parent > 0.
heapsort_for_above_root ==
    /\ pc = "heapsort_for"
    /\ IF L.parent > 0
         THEN Access({L.parent},
                /\ fr' = [parent |-> L.parent, elem |-> At(c, L.parent),
                          ret |-> "heapsort_for"]
                /\ L' = [L EXCEPT !.parent = L.parent - 1]
                /\ pc' = "heapsort_sift_down"
                /\ UNCHANGED faults)
         ELSE /\ pc' = "heapsort_while"
              /\ UNCHANGED <<L, fr, faults>>
    /\ UNCHANGED <<v, k, c, stack, aux, events, out>>

\* The loop that builds the heap, up to the entry of sift_down, which takes
\* the element at parent out; parent is passed by value, and the loop's
\* --parent is taken together with the call.
heapsort_for ==
    /\ pc = "heapsort_for"
    /\ IF L.parent >= 0
         THEN Access({L.parent},
                /\ fr' = [parent |-> L.parent, elem |-> At(c, L.parent),
                          ret |-> "heapsort_for"]
                /\ L' = [L EXCEPT !.parent = L.parent - 1]
                /\ pc' = "heapsort_sift_down"
                /\ UNCHANGED faults)
         ELSE /\ pc' = "heapsort_while"
              /\ UNCHANGED <<L, fr, faults>>
    /\ UNCHANGED <<v, k, c, stack, aux, events, out>>

\* One turn of sift_down's loop: the larger child moves up into the hole,
\* or the element taken out is put into the hole and sift_down returns.
heapsort_sift_down ==
    /\ pc = "heapsort_sift_down"
    /\ Access(sift_down_reads(L.len, fr.parent) \cup {fr.parent},
         LET child == pick_child(c, L.len, fr.parent)
         IN IF child = no_child \/ ~Less(fr.elem, At(c, child))
              THEN /\ c' = Put(c, fr.parent, fr.elem)
                   /\ events' = Append(events,
                                       SiftEvent(Put(c, fr.parent, fr.elem)))
                   /\ pc' = fr.ret
                   /\ fr' = NoLocals
                   /\ UNCHANGED faults
              ELSE /\ c' = Put(c, fr.parent, At(c, child))
                   /\ fr' = [fr EXCEPT !.parent = child]
                   /\ UNCHANGED <<pc, events, faults>>)
    /\ UNCHANGED <<v, k, L, stack, aux, out>>

\* The loop that pops the maxima, up to the entry of sift_down(0).
heapsort_while ==
    /\ pc = "heapsort_while"
    /\ IF L.len - 1 # 0
         THEN Access({0, L.len - 1},
                /\ c' = iter_swap(c, 0, L.len - 1)
                /\ fr' = [parent |-> 0, elem |-> At(c, L.len - 1),
                          ret |-> "heapsort_while"]
                /\ L' = [L EXCEPT !.len = L.len - 1]
                /\ pc' = "heapsort_sift_down"
                /\ UNCHANGED faults)
         ELSE /\ pc' = "return"
              /\ L' = [L EXCEPT !.len = L.len - 1]
              /\ UNCHANGED <<c, fr, faults>>
    /\ UNCHANGED <<v, k, stack, aux, events, out>>

heapsort_byswap ==
    /\ pc = "heapsort_byswap"
    /\ IF Len(c) < 2
         THEN pc' = "return" /\ L' = L
         ELSE pc' = "heapsort_byswap_for" /\ L' = [len |-> Len(c),
                                                   parent |-> Len(c) \div 2]
    /\ UNCHANGED <<v, k, c, stack, fr, aux, faults, events, out>>

heapsort_byswap_for ==
    /\ pc = "heapsort_byswap_for"
    /\ IF L.parent >= 0
         THEN /\ fr' = [parent |-> L.parent, ret |-> "heapsort_byswap_for"]
              /\ L' = [L EXCEPT !.parent = L.parent - 1]
              /\ pc' = "heapsort_byswap_sift_down"
         ELSE /\ pc' = "heapsort_byswap_while"
              /\ UNCHANGED <<L, fr>>
    /\ UNCHANGED <<v, k, c, stack, aux, faults, events, out>>

\* heapsort_byswap_sift_down as it would be if it stopped only at a child
\* less than the element, and so swapped equal elements.
heapsort_byswap_sift_down_on_ties ==
    /\ pc = "heapsort_byswap_sift_down"
    /\ LET reads == sift_down_reads(L.len, fr.parent)
       IN Access(IF reads = {} THEN {} ELSE reads \cup {fr.parent},
            LET child == pick_child(c, L.len, fr.parent)
            IN IF child = no_child \/ Less(At(c, child), At(c, fr.parent))
                 THEN /\ events' = Append(events, SiftEvent(c))
                      /\ pc' = fr.ret
                      /\ fr' = NoLocals
                      /\ UNCHANGED <<c, faults>>
                 ELSE /\ c' = iter_swap(c, fr.parent, child)
                      /\ fr' = [fr EXCEPT !.parent = child]
                      /\ UNCHANGED <<pc, events, faults>>)
    /\ UNCHANGED <<v, k, L, stack, aux, out>>

\* One turn of sift_down's loop: the element is swapped with its larger
\* child, or sift_down returns.
heapsort_byswap_sift_down ==
    /\ pc = "heapsort_byswap_sift_down"
    /\ LET reads == sift_down_reads(L.len, fr.parent)
       IN Access(IF reads = {} THEN {} ELSE reads \cup {fr.parent},
            LET child == pick_child(c, L.len, fr.parent)
            IN IF child = no_child \/ ~Less(At(c, fr.parent), At(c, child))
                 THEN /\ events' = Append(events, SiftEvent(c))
                      /\ pc' = fr.ret
                      /\ fr' = NoLocals
                      /\ UNCHANGED <<c, faults>>
                 ELSE /\ c' = iter_swap(c, fr.parent, child)
                      /\ fr' = [fr EXCEPT !.parent = child]
                      /\ UNCHANGED <<pc, events, faults>>)
    /\ UNCHANGED <<v, k, L, stack, aux, out>>

heapsort_byswap_while ==
    /\ pc = "heapsort_byswap_while"
    /\ IF L.len - 1 # 0
         THEN Access({0, L.len - 1},
                /\ c' = iter_swap(c, 0, L.len - 1)
                /\ fr' = [parent |-> 0, ret |-> "heapsort_byswap_while"]
                /\ L' = [L EXCEPT !.len = L.len - 1]
                /\ pc' = "heapsort_byswap_sift_down"
                /\ UNCHANGED faults)
         ELSE /\ pc' = "return"
              /\ L' = [L EXCEPT !.len = L.len - 1]
              /\ UNCHANGED <<c, fr, faults>>
    /\ UNCHANGED <<v, k, stack, aux, events, out>>

----------------------------------------------------------------------------
\* The pivot selections of namespace detail.

bring_mid_to_front(s, first, last) == iter_swap(s, first, midpoint(first, last))

\* iter_min as it would be if the greater of the two were returned.
iter_min_greater(s, p, q) == IF Less(At(s, p), At(s, q)) THEN q ELSE p

iter_min(s, p, q) == IF Less(At(s, q), At(s, p)) THEN q ELSE p

\* median_of_three as it would be if the front element were always taken.
median_of_three_front(s, p, q, r) == p

median_of_three(s, p, q, r) ==
    IF Less(At(s, p), At(s, q))
      THEN IF Less(At(s, p), At(s, r)) THEN iter_min(s, q, r) ELSE p
      ELSE IF Less(At(s, q), At(s, r)) THEN iter_min(s, p, r) ELSE q

bring_median_of_three_to_front(s, first, last) ==
    iter_swap(s, first,
              median_of_three(s, first, midpoint(first, last), last - 1))

\* The value returned and the vector left by sorted_after_pivot_selection.
sorted_after_pivot_selection(s, first, last) ==
    LET len == last - first
    IN IF len < 3
         THEN [sorted |-> TRUE,
               c |-> IF len = 2 /\ Less(At(s, last - 1), At(s, first))
                       THEN iter_swap(s, first, last - 1) ELSE s]
         ELSE [sorted |-> FALSE,
               c |-> bring_median_of_three_to_front(s, first, last)]

\* The positions sorted_after_pivot_selection reads or writes.
pivot_selection_reads(first, last) ==
    LET len == last - first
    IN IF len < 2 THEN {}
       ELSE IF len = 2 THEN {first, last - 1}
       ELSE {first, midpoint(first, last), last - 1}

----------------------------------------------------------------------------
\* detail::partitions::lomuto and detail::partitions::hoare

LomutoCall(first, last, ret) ==
    [first |-> first, last |-> last, mid |-> first, cur |-> first + 1,
     ret |-> ret]

\* lomuto as it would be if the elements not greater than the pivot were
\* moved to the left: !(pivot < *cur).
lomuto_not_greater ==
    /\ pc = "lomuto"
    /\ IF fr.cur # fr.last
         THEN Access({fr.cur, fr.first},
                IF ~Less(At(c, fr.first), At(c, fr.cur))
                  THEN Access({fr.mid + 1},
                         /\ c' = iter_swap(c, fr.mid + 1, fr.cur)
                         /\ fr' = [fr EXCEPT !.mid = fr.mid + 1,
                                             !.cur = fr.cur + 1]
                         /\ UNCHANGED <<pc, faults>>)
                  ELSE /\ fr' = [fr EXCEPT !.cur = fr.cur + 1]
                       /\ UNCHANGED <<c, pc, faults>>)
         ELSE Access({fr.first, fr.mid},
                /\ c' = iter_swap(c, fr.first, fr.mid)
                /\ pc' = fr.ret
                /\ fr' = [mid |-> fr.mid]
                /\ UNCHANGED faults)
    /\ UNCHANGED <<v, k, L, stack, aux, events, out>>

\* One turn of the loop, or after it the swap of the pivot into its place
\* and the return of mid.  The pivot is read through the reference to *first.
lomuto ==
    /\ pc = "lomuto"
    /\ IF fr.cur # fr.last
         THEN Access({fr.cur, fr.first},
                IF Less(At(c, fr.cur), At(c, fr.first))
                  THEN Access({fr.mid + 1},
                         /\ c' = iter_swap(c, fr.mid + 1, fr.cur)
                         /\ fr' = [fr EXCEPT !.mid = fr.mid + 1,
                                             !.cur = fr.cur + 1]
                         /\ UNCHANGED <<pc, faults>>)
                  ELSE /\ fr' = [fr EXCEPT !.cur = fr.cur + 1]
                       /\ UNCHANGED <<c, pc, faults>>)
         ELSE Access({fr.first, fr.mid},
                /\ c' = iter_swap(c, fr.first, fr.mid)
                /\ pc' = fr.ret
                /\ fr' = [mid |-> fr.mid]
                /\ UNCHANGED faults)
    /\ UNCHANGED <<v, k, L, stack, aux, events, out>>

\* pivot is the position the reference to *first is bound to; lo and hi are
\* the range the call was given, which the scanners first and last leave
\* behind.
HoareCall(first, last, ret) ==
    [lo |-> first, hi |-> last, pivot |-> first, first |-> first,
     last |-> last, ret |-> ret]

\* A scanner that reads position i of the vector, inside or outside of the
\* range the call was given.
Scanned(i) ==
    IF i >= fr.lo /\ i < fr.hi THEN faults
    ELSE faults \cup {"scanner_overrun"}

\* One test of while (*++first < pivot).
hoare_left ==
    /\ pc = "hoare_left"
    /\ Access({fr.first + 1, fr.pivot},
         /\ fr' = [fr EXCEPT !.first = fr.first + 1]
         /\ faults' = Scanned(fr.first + 1)
         /\ pc' = IF Less(At(c, fr.first + 1), At(c, fr.pivot))
                    THEN "hoare_left" ELSE "hoare_right")
    /\ UNCHANGED <<v, k, c, L, stack, aux, events, out>>

\* One test of while (pivot < *--last).
hoare_right ==
    /\ pc = "hoare_right"
    /\ Access({fr.last - 1, fr.pivot},
         /\ fr' = [fr EXCEPT !.last = fr.last - 1]
         /\ faults' = Scanned(fr.last - 1)
         /\ pc' = IF Less(At(c, fr.pivot), At(c, fr.last - 1))
                    THEN "hoare_right" ELSE "hoare_swap")
    /\ UNCHANGED <<v, k, c, L, stack, aux, events, out>>

\* hoare_swap as it would be if the right scanner were returned.
hoare_swap_returns_last ==
    /\ pc = "hoare_swap"
    /\ IF fr.first >= fr.last
         THEN /\ pc' = fr.ret
              /\ fr' = [mid |-> fr.last]
              /\ UNCHANGED <<c, faults>>
         ELSE Access({fr.first, fr.last},
                /\ c' = iter_swap(c, fr.first, fr.last)
                /\ pc' = "hoare_left"
                /\ UNCHANGED <<fr, faults>>)
    /\ UNCHANGED <<v, k, L, stack, aux, events, out>>

\* The scanners have stopped: return where they crossed, or swap and go on.
hoare_swap ==
    /\ pc = "hoare_swap"
    /\ IF fr.first >= fr.last
         THEN /\ pc' = fr.ret
              /\ fr' = [mid |-> fr.first]
              /\ UNCHANGED <<c, faults>>
         ELSE Access({fr.first, fr.last},
                /\ c' = iter_swap(c, fr.first, fr.last)
                /\ pc' = "hoare_left"
                /\ UNCHANGED <<fr, faults>>)
    /\ UNCHANGED <<v, k, L, stack, aux, events, out>>

----------------------------------------------------------------------------
\* quicksort_lomuto_simple and quicksort_lomuto_simple_iterative

\* The call quicksort_lomuto_simple(first, last) of the function object
\* test_one was given.
quicksort_lomuto_simple_f ==
    /\ pc = "quicksort_lomuto_simple"
    /\ stack = <<>>
    /\ stack' = <<Frame(0, Len(c))>>
    /\ UNCHANGED <<v, k, c, pc, L, fr, aux, faults, events, out>>

quicksort_lomuto_simple ==
    /\ pc = "quicksort_lomuto_simple"
    /\ stack # <<>>
    /\ Top(stack).at = "call"
    /\ LET first == Top(stack).first
           last == Top(stack).last
       IN IF possibly_unsorted(first, last)
            THEN Access({first, midpoint(first, last)},
                   /\ c' = bring_mid_to_front(c, first, last)
                   /\ fr' = LomutoCall(first, last, "quicksort_lomuto_simple")
                   /\ stack' = SetTop(stack, [Top(stack) EXCEPT !.at = "lomuto"])
                   /\ pc' = "lomuto"
                   /\ UNCHANGED faults)
            ELSE /\ Return("quicksort_lomuto_simple")
                 /\ UNCHANGED <<c, fr, faults>>
    /\ UNCHANGED <<v, k, L, aux, events, out>>

\* After the partition: the call on [first, mid).
quicksort_lomuto_simple_first ==
    /\ pc = "quicksort_lomuto_simple"
    /\ stack # <<>>
    /\ Top(stack).at = "lomuto"
    /\ stack' = Append(SetTop(stack, [first |-> Top(stack).first,
                                      last |-> Top(stack).last,
                                      mid |-> fr.mid, at |-> "first"]),
                       Frame(Top(stack).first, fr.mid))
    /\ fr' = NoLocals
    /\ UNCHANGED <<v, k, c, pc, L, aux, faults, events, out>>

\* After the first call: the call on [++mid, last).
quicksort_lomuto_simple_second ==
    /\ pc = "quicksort_lomuto_simple"
    /\ stack # <<>>
    /\ Top(stack).at = "first"
    /\ stack' = Append(SetTop(stack, [Top(stack) EXCEPT
                                        !.mid = Top(stack).mid + 1,
                                        !.at = "second"]),
                       Frame(Top(stack).mid + 1, Top(stack).last))
    /\ UNCHANGED <<v, k, c, pc, L, fr, aux, faults, events, out>>

quicksort_lomuto_simple_return ==
    /\ pc = "quicksort_lomuto_simple"
    /\ stack # <<>>
    /\ Top(stack).at = "second"
    /\ Return("quicksort_lomuto_simple")
    /\ UNCHANGED <<v, k, c, L, fr, aux, faults, events, out>>

quicksort_lomuto_simple_iterative ==
    /\ pc = "quicksort_lomuto_simple_iterative"
    /\ stack' = <<<<0, Len(c)>>>>
    /\ L' = [first |-> 0, last |-> Len(c)]
    /\ pc' = "quicksort_lomuto_simple_iterative_while"
    /\ UNCHANGED <<v, k, c, fr, aux, faults, events, out>>

\* The loop up to the partition: the interval on top is popped, and either
\* needs nothing or has its middle element brought to the front.
quicksort_lomuto_simple_iterative_while ==
    /\ pc = "quicksort_lomuto_simple_iterative_while"
    /\ IF stack # <<>>
         THEN LET first == Top(stack)[1]
                  last == Top(stack)[2]
              IN IF ~possibly_unsorted(first, last)
                   THEN /\ stack' = Pop(stack)
                        /\ L' = [first |-> first, last |-> last]
                        /\ UNCHANGED <<c, pc, fr, faults>>
                   ELSE Access({first, midpoint(first, last)},
                          /\ stack' = Pop(stack)
                          /\ L' = [first |-> first, last |-> last]
                          /\ c' = bring_mid_to_front(c, first, last)
                          /\ fr' = LomutoCall(first, last,
                                 "quicksort_lomuto_simple_iterative_push")
                          /\ pc' = "lomuto"
                          /\ UNCHANGED faults)
         ELSE /\ pc' = "return"
              /\ UNCHANGED <<c, L, stack, fr, faults>>
    /\ UNCHANGED <<v, k, aux, events, out>>

\* After the partition: the two intervals are pushed.
quicksort_lomuto_simple_iterative_push ==
    /\ pc = "quicksort_lomuto_simple_iterative_push"
    /\ stack' = stack \o <<<<fr.mid + 1, L.last>>, <<L.first, fr.mid>>>>
    /\ fr' = NoLocals
    /\ pc' = "quicksort_lomuto_simple_iterative_while"
    /\ UNCHANGED <<v, k, c, L, aux, faults, events, out>>

----------------------------------------------------------------------------
\* quicksort_lomuto and quicksort_lomuto_iterative

quicksort_lomuto_f ==
    /\ pc = "quicksort_lomuto"
    /\ stack = <<>>
    /\ stack' = <<Frame(0, Len(c))>>
    /\ UNCHANGED <<v, k, c, pc, L, fr, aux, faults, events, out>>

quicksort_lomuto ==
    /\ pc = "quicksort_lomuto"
    /\ stack # <<>>
    /\ Top(stack).at = "call"
    /\ LET first == Top(stack).first
           last == Top(stack).last
       IN Access(pivot_selection_reads(first, last),
            LET selected == sorted_after_pivot_selection(c, first, last)
            IN /\ c' = selected.c
               /\ IF selected.sorted
                    THEN /\ Return("quicksort_lomuto")
                         /\ fr' = fr
                    ELSE /\ fr' = LomutoCall(first, last, "quicksort_lomuto")
                         /\ stack' = SetTop(stack,
                                [Top(stack) EXCEPT !.at = "lomuto"])
                         /\ pc' = "lomuto"
               /\ UNCHANGED faults)
    /\ UNCHANGED <<v, k, L, aux, events, out>>

\* After the partition: the call on [first, mid).
quicksort_lomuto_first ==
    /\ pc = "quicksort_lomuto"
    /\ stack # <<>>
    /\ Top(stack).at = "lomuto"
    /\ stack' = Append(SetTop(stack, [first |-> Top(stack).first,
                                      last |-> Top(stack).last,
                                      mid |-> fr.mid, at |-> "first"]),
                       Frame(Top(stack).first, fr.mid))
    /\ fr' = NoLocals
    /\ UNCHANGED <<v, k, c, pc, L, aux, faults, events, out>>

\* After the first call: the call on [++mid, last).
quicksort_lomuto_second ==
    /\ pc = "quicksort_lomuto"
    /\ stack # <<>>
    /\ Top(stack).at = "first"
    /\ stack' = Append(SetTop(stack, [Top(stack) EXCEPT
                                        !.mid = Top(stack).mid + 1,
                                        !.at = "second"]),
                       Frame(Top(stack).mid + 1, Top(stack).last))
    /\ UNCHANGED <<v, k, c, pc, L, fr, aux, faults, events, out>>

quicksort_lomuto_return ==
    /\ pc = "quicksort_lomuto"
    /\ stack # <<>>
    /\ Top(stack).at = "second"
    /\ Return("quicksort_lomuto")
    /\ UNCHANGED <<v, k, c, L, fr, aux, faults, events, out>>

quicksort_lomuto_iterative ==
    /\ pc = "quicksort_lomuto_iterative"
    /\ stack' = <<<<0, Len(c)>>>>
    /\ L' = [first |-> 0, last |-> Len(c)]
    /\ pc' = "quicksort_lomuto_iterative_while"
    /\ UNCHANGED <<v, k, c, fr, aux, faults, events, out>>

\* The loop up to the partition: the interval on top is popped, and is
\* either sorted on the spot or given its pivot.
quicksort_lomuto_iterative_while ==
    /\ pc = "quicksort_lomuto_iterative_while"
    /\ IF stack # <<>>
         THEN LET first == Top(stack)[1]
                  last == Top(stack)[2]
              IN Access(pivot_selection_reads(first, last),
                   LET selected == sorted_after_pivot_selection(c, first, last)
                   IN /\ stack' = Pop(stack)
                      /\ L' = [first |-> first, last |-> last]
                      /\ c' = selected.c
                      /\ IF selected.sorted
                           THEN UNCHANGED <<pc, fr>>
                           ELSE /\ fr' = LomutoCall(first, last,
                                      "quicksort_lomuto_iterative_push")
                                /\ pc' = "lomuto"
                      /\ UNCHANGED faults)
         ELSE /\ pc' = "return"
              /\ UNCHANGED <<c, L, stack, fr, faults>>
    /\ UNCHANGED <<v, k, aux, events, out>>

\* After the partition: the two intervals are pushed.
quicksort_lomuto_iterative_push ==
    /\ pc = "quicksort_lomuto_iterative_push"
    /\ stack' = stack \o <<<<fr.mid + 1, L.last>>, <<L.first, fr.mid>>>>
    /\ fr' = NoLocals
    /\ pc' = "quicksort_lomuto_iterative_while"
    /\ UNCHANGED <<v, k, c, L, aux, faults, events, out>>

----------------------------------------------------------------------------
\* quicksort_hoare and quicksort_hoare_iterative

quicksort_hoare_f ==
    /\ pc = "quicksort_hoare"
    /\ stack = <<>>
    /\ stack' = <<Frame(0, Len(c))>>
    /\ UNCHANGED <<v, k, c, pc, L, fr, aux, faults, events, out>>

quicksort_hoare ==
    /\ pc = "quicksort_hoare"
    /\ stack # <<>>
    /\ Top(stack).at = "call"
    /\ LET first == Top(stack).first
           last == Top(stack).last
       IN Access(pivot_selection_reads(first, last),
            LET selected == sorted_after_pivot_selection(c, first, last)
            IN /\ c' = selected.c
               /\ IF selected.sorted
                    THEN /\ Return("quicksort_hoare")
                         /\ fr' = fr
                    ELSE /\ fr' = HoareCall(first, last, "quicksort_hoare")
                         /\ stack' = SetTop(stack,
                                [Top(stack) EXCEPT !.at = "hoare"])
                         /\ pc' = "hoare_left"
               /\ UNCHANGED faults)
    /\ UNCHANGED <<v, k, L, aux, events, out>>

\* After the partition: the call on [first, mid).
quicksort_hoare_first ==
    /\ pc = "quicksort_hoare"
    /\ stack # <<>>
    /\ Top(stack).at = "hoare"
    /\ stack' = Append(SetTop(stack, [first |-> Top(stack).first,
                                      last |-> Top(stack).last,
                                      mid |-> fr.mid, at |-> "first"]),
                       Frame(Top(stack).first, fr.mid))
    /\ fr' = NoLocals
    /\ UNCHANGED <<v, k, c, pc, L, aux, faults, events, out>>

\* After the first call: the call on [mid, last).
quicksort_hoare_second ==
    /\ pc = "quicksort_hoare"
    /\ stack # <<>>
    /\ Top(stack).at = "first"
    /\ stack' = Append(SetTop(stack, [Top(stack) EXCEPT
                                        !.mid = Top(stack).mid,
                                        !.at = "second"]),
                       Frame(Top(stack).mid, Top(stack).last))
    /\ UNCHANGED <<v, k, c, pc, L, fr, aux, faults, events, out>>

quicksort_hoare_return ==
    /\ pc = "quicksort_hoare"
    /\ stack # <<>>
    /\ Top(stack).at = "second"
    /\ Return("quicksort_hoare")
    /\ UNCHANGED <<v, k, c, L, fr, aux, faults, events, out>>

quicksort_hoare_iterative ==
    /\ pc = "quicksort_hoare_iterative"
    /\ stack' = <<<<0, Len(c)>>>>
    /\ L' = [first |-> 0, last |-> Len(c)]
    /\ pc' = "quicksort_hoare_iterative_while"
    /\ UNCHANGED <<v, k, c, fr, aux, faults, events, out>>

\* The loop up to the partition: the interval on top is popped, and is
\* either sorted on the spot or given its pivot.
quicksort_hoare_iterative_while ==
    /\ pc = "quicksort_hoare_iterative_while"
    /\ IF stack # <<>>
         THEN LET first == Top(stack)[1]
                  last == Top(stack)[2]
              IN Access(pivot_selection_reads(first, last),
                   LET selected == sorted_after_pivot_selection(c, first, last)
                   IN /\ stack' = Pop(stack)
                      /\ L' = [first |-> first, last |-> last]
                      /\ c' = selected.c
                      /\ IF selected.sorted
                           THEN UNCHANGED <<pc, fr>>
                           ELSE /\ fr' = HoareCall(first, last,
                                      "quicksort_hoare_iterative_push")
                                /\ pc' = "hoare_left"
                      /\ UNCHANGED faults)
         ELSE /\ pc' = "return"
              /\ UNCHANGED <<c, L, stack, fr, faults>>
    /\ UNCHANGED <<v, k, aux, events, out>>

\* quicksort_hoare_iterative_push as it would be if the right interval were
\* pushed as in the Lomuto quicksorts, from mid + 1.
quicksort_hoare_iterative_push_past_mid ==
    /\ pc = "quicksort_hoare_iterative_push"
    /\ stack' = stack \o <<<<fr.mid + 1, L.last>>, <<L.first, fr.mid>>>>
    /\ fr' = NoLocals
    /\ pc' = "quicksort_hoare_iterative_while"
    /\ UNCHANGED <<v, k, c, L, aux, faults, events, out>>

\* After the partition: the two intervals are pushed.
quicksort_hoare_iterative_push ==
    /\ pc = "quicksort_hoare_iterative_push"
    /\ stack' = stack \o <<<<fr.mid, L.last>>, <<L.first, fr.mid>>>>
    /\ fr' = NoLocals
    /\ pc' = "quicksort_hoare_iterative_while"
    /\ UNCHANGED <<v, k, c, L, aux, faults, events, out>>

----------------------------------------------------------------------------
\* The standard library's sorts, which test_fast runs after the quicksorts.
\* The repository only calls them; they are modelled by what the library of
\* the build (libstdc++ 12, glibc 2.36) does with the range, one step a call.

\* libstdc++'s __push_heap: the value goes up from the hole while its parent
\* is less than it, and not above top.
RECURSIVE push_heap(_, _, _, _)
push_heap(s, hole, top, value) ==
    LET parent == (hole - 1) \div 2
    IN IF hole > top /\ Less(At(s, parent), value)
         THEN push_heap(Put(s, hole, At(s, parent)), parent, top, value)
         ELSE Put(s, hole, value)

\* libstdc++'s __adjust_heap from the hole on: the hole goes down to the
\* bottom of the heap of len elements, the right child moving up unless it
\* is less than the left one, and an only child moving up at the end; then
\* the value is pushed up from there.
RECURSIVE adjust_heap_from(_, _, _, _, _)
adjust_heap_from(s, hole, len, top, value) ==
    IF hole < (len - 1) \div 2
      THEN LET right == 2 * (hole + 1)
               child == IF Less(At(s, right), At(s, right - 1))
                          THEN right - 1 ELSE right
           IN adjust_heap_from(Put(s, hole, At(s, child)), child, len, top,
                               value)
      ELSE IF len % 2 = 0 /\ hole = (len - 2) \div 2
             THEN LET child == 2 * (hole + 1) - 1
                  IN push_heap(Put(s, hole, At(s, child)), child, top, value)
             ELSE push_heap(s, hole, top, value)

adjust_heap(s, hole, len, value) == adjust_heap_from(s, hole, len, hole, value)

\* std::make_heap: __adjust_heap on every parent, from the last one to the
\* root.
RECURSIVE make_heap_from(_, _)
make_heap_from(s, parent) ==
    LET t == adjust_heap(s, parent, Len(s), At(s, parent))
    IN IF parent = 0 THEN t ELSE make_heap_from(t, parent - 1)

make_heap(s) ==
    IF Len(s) < 2 THEN s ELSE make_heap_from(s, (Len(s) - 2) \div 2)

\* std::sort_heap: while more than one element is left, the last one is
\* taken out, the maximum is put in its place, and __adjust_heap puts the
\* element taken out into the heap that is left.
RECURSIVE sort_heap_from(_, _)
sort_heap_from(s, last) ==
    IF last > 1
      THEN LET value == At(s, last - 1)
           IN sort_heap_from(adjust_heap(Put(s, last - 1, At(s, 0)), 0,
                                         last - 1, value),
                             last - 1)
      ELSE s

sort_heap(s) == sort_heap_from(s, Len(s))

stdlib_heapsort ==
    /\ pc = "stdlib_heapsort"
    /\ c' = sort_heap(make_heap(c))
    /\ pc' = "return"
    /\ UNCHANGED <<v, k, L, stack, fr, aux, faults, events, out>>

\* std::stable_sort's result: the elements in non-decreasing order, equal
\* ones in the order they had.
stable_sort(s) ==
    LET n == Len(s)
        before(j, i) == Less(s[j], s[i]) \/ (j < i /\ ~Less(s[i], s[j]))
        rank(i) == Cardinality({j \in 1..n : before(j, i)}) + 1
    IN [r \in 1..n |-> s[CHOOSE i \in 1..n : rank(i) = r]]

stdlib_mergesort ==
    /\ pc = "stdlib_mergesort"
    /\ c' = stable_sort(c)
    /\ pc' = "return"
    /\ UNCHANGED <<v, k, L, stack, fr, aux, faults, events, out>>

\* The arrangements of s that are in order: what a sort gives that makes no
\* promise about equal elements.
sorted_arrangements(s) ==
    {t \in {[i \in 1..Len(s) |-> s[p[i]]] : p \in Permutations(1..Len(s))} :
        is_sorted(t)}

\* std::sort's possible results. Up to 16 elements libstdc++ does nothing
\* but an insertion sort, which puts each element after the ones equal to
\* it; a longer range is partitioned first, and where equal elements end up
\* is left to the library: any sorted arrangement.
sort(s) ==
    IF Len(s) <= 16 THEN {stable_sort(s)} ELSE sorted_arrangements(s)

stdlib_introsort ==
    /\ pc = "stdlib_introsort"
    /\ c' \in sort(c)
    /\ pc' = "return"
    /\ UNCHANGED <<v, k, L, stack, fr, aux, faults, events, out>>

\* std::qsort's possible results with the comparator stdlib_qsort hands it
\* (-1, +1 or 0 from <). glibc sorts by merging in a temporary buffer, which
\* keeps equal elements in order; an array under 1024 bytes always gets the
\* buffer, on the stack. A larger one whose buffer cannot be allocated is
\* sorted in place by quicksort, which may leave equal elements in any
\* order. An element, a key and a tag, takes 8 bytes (plain ints, as in
\* main, take 4).
qsort(s) ==
    IF Len(s) * 8 < 1024 THEN {stable_sort(s)} ELSE sorted_arrangements(s)

\* An empty range is not handed to std::qsort.
stdlib_qsort ==
    /\ pc = "stdlib_qsort"
    /\ c' \in (IF Len(c) = 0 THEN {c} ELSE qsort(c))
    /\ pc' = "return"
    /\ UNCHANGED <<v, k, L, stack, fr, aux, faults, events, out>>

----------------------------------------------------------------------------

Init ==
    /\ v \in Vectors
    /\ k = 1
    /\ c = <<>>
    /\ pc = "test_one"
    /\ L = NoLocals
    /\ stack = <<>>
    /\ fr = NoLocals
    /\ aux = <<>>
    /\ faults = {}
    /\ events = <<>>
    /\ out = <<>>

Next ==
    \/ test_one_call
    \/ test_one_return
    \/ insertion_sort
    \/ insertion_sort_for
    \/ insertion_sort_shift
    \/ insertion_sort_byswap
    \/ insertion_sort_byswap_for
    \/ binary_insertion_sort
    \/ binary_insertion_sort_for
    \/ binary_insertion_sort_byrotate
    \/ binary_insertion_sort_byrotate_for
    \/ selection_sort
    \/ selection_sort_for
    \/ bubble_sort
    \/ bubble_sort_for
    \/ bubble_sort_pass
    \/ bubble_sort_nonadaptive
    \/ bubble_sort_nonadaptive_for
    \/ bubble_sort_nonadaptive_pass
    \/ bubble_sort_maxadaptive
    \/ bubble_sort_maxadaptive_while
    \/ bubble_sort_maxadaptive_pass
    \/ gnome_sort
    \/ gnome_sort_for
    \/ shellsort_hibbard
    \/ shellsort_3smooth
    \/ shellsort_sedgewick
    \/ shellsort_tokuda
    \/ shellsort_quasi_ciura
    \/ shellsort_for_each
    \/ shellsort_for
    \/ insertion_sort_subsequence_for
    \/ insertion_sort_subsequence_shift
    \/ merge_while
    \/ merge_move
    \/ mergesort_topdown
    \/ mergesort_subrange
    \/ mergesort_subrange_second
    \/ mergesort_subrange_merge
    \/ mergesort_subrange_return
    \/ mergesort_topdown_iterative
    \/ mergesort_topdown_iterative_while
    \/ mergesort_topdown_iterative_for
    \/ mergesort_topdown_iterative_top
    \/ mergesort_topdown_iterative_merged
    \/ mergesort_bottomup_iterative
    \/ mergesort_bottomup_iterative_for
    \/ mergesort_bottomup_iterative_pairs
    \/ mergesort_bottomup_iterative_merged
    \/ heapsort
    \/ heapsort_for
    \/ heapsort_sift_down
    \/ heapsort_while
    \/ heapsort_byswap
    \/ heapsort_byswap_for
    \/ heapsort_byswap_sift_down
    \/ heapsort_byswap_while
    \/ lomuto
    \/ hoare_left
    \/ hoare_right
    \/ hoare_swap
    \/ quicksort_lomuto_simple_f
    \/ quicksort_lomuto_simple
    \/ quicksort_lomuto_simple_first
    \/ quicksort_lomuto_simple_second
    \/ quicksort_lomuto_simple_return
    \/ quicksort_lomuto_simple_iterative
    \/ quicksort_lomuto_simple_iterative_while
    \/ quicksort_lomuto_simple_iterative_push
    \/ quicksort_lomuto_f
    \/ quicksort_lomuto
    \/ quicksort_lomuto_first
    \/ quicksort_lomuto_second
    \/ quicksort_lomuto_return
    \/ quicksort_lomuto_iterative
    \/ quicksort_lomuto_iterative_while
    \/ quicksort_lomuto_iterative_push
    \/ quicksort_hoare_f
    \/ quicksort_hoare
    \/ quicksort_hoare_first
    \/ quicksort_hoare_second
    \/ quicksort_hoare_return
    \/ quicksort_hoare_iterative
    \/ quicksort_hoare_iterative_while
    \/ quicksort_hoare_iterative_push
    \/ stdlib_heapsort
    \/ stdlib_mergesort
    \/ stdlib_introsort
    \/ stdlib_qsort

Spec == Init /\ [][Next]_vars

LiveSpec == Spec /\ WF_vars(Next)

----------------------------------------------------------------------------
\* The gap generators on their own: every generator applied to every length
\* up to MaxGapLen, as detail::shellsort applies them to last - first.

generate_gaps(name, gaps) ==
    /\ pc = "generate_gaps"
    /\ pc' = "gaps"
    /\ L' = [len |-> L.len, generator |-> name, gaps |-> gaps]
    /\ UNCHANGED <<v, k, c, stack, fr, aux, faults, events, out>>

generate_hibbard == generate_gaps("hibbard", hibbard(L.len))

generate_three_smooth == generate_gaps("three_smooth", three_smooth(L.len))

generate_sedgewick == generate_gaps("sedgewick", sedgewick(L.len))

generate_tokuda == generate_gaps("tokuda", tokuda(L.len))

generate_quasi_ciura == generate_gaps("quasi_ciura", quasi_ciura(L.len))

GapInit ==
    /\ v = <<>>
    /\ k = 1
    /\ c = <<>>
    /\ pc = "generate_gaps"
    /\ L \in {[len |-> n] : n \in 0..MaxGapLen}
    /\ stack = <<>>
    /\ fr = NoLocals
    /\ aux = <<>>
    /\ faults = {}
    /\ events = <<>>
    /\ out = <<>>

GapNext ==
    \/ generate_hibbard
    \/ generate_three_smooth
    \/ generate_sedgewick
    \/ generate_tokuda
    \/ generate_quasi_ciura

GapSpec == GapInit /\ [][GapNext]_vars

----------------------------------------------------------------------------
\* What the claims speak of.

\* detail::partitions::lomuto on its own: called on every non-empty range
\* [first, last) of every vector.

LomutoInit ==
    /\ v \in Vectors
    /\ k = 1
    /\ c = v
    /\ pc = "lomuto"
    /\ L \in {[first |-> first, last |-> last] :
                 first \in 0..MaxLen, last \in 1..MaxLen}
    /\ L.first < L.last
    /\ L.last <= Len(v)
    /\ stack = <<>>
    /\ fr = LomutoCall(L.first, L.last, "lomuto_returned")
    /\ aux = <<>>
    /\ faults = {}
    /\ events = <<>>
    /\ out = <<>>

LomutoNext == lomuto

LomutoSpec == LomutoInit /\ [][LomutoNext]_vars

----------------------------------------------------------------------------

Ran(f) == \E i \in 1..Len(out) : out[i].f = f

Report(f) == out[CHOOSE i \in 1..Len(out) : out[i].f = f]

AllRan == Len(out) = NumAlgs

NonDecreasing(s) ==
    \A i, j \in 1..Len(s) : i < j => s[i].key <= s[j].key

SameElements(s, t) ==
    /\ Len(s) = Len(t)
    /\ \A x \in {s[i] : i \in 1..Len(s)} \cup {t[i] : i \in 1..Len(t)} :
          Cardinality({i \in 1..Len(s) : s[i] = x})
              = Cardinality({i \in 1..Len(t) : t[i] = x})

SameKeys(s, t) ==
    /\ Len(s) = Len(t)
    /\ \A key \in Keys :
          Cardinality({i \in 1..Len(s) : s[i].key = key})
              = Cardinality({i \in 1..Len(t) : t[i].key = key})

StableOrder(s) ==
    \A i, j \in 1..Len(s) :
        i < j /\ s[i].key = s[j].key => s[i].tag < s[j].tag

HasTies(s) == \E i, j \in 1..Len(s) : i < j /\ s[i].key = s[j].key

\* The functions of the repository's own, as against the library's sorts it
\* runs beside them.
HandWritten ==
    {Order[i] : i \in 1..NumAlgs} \
        {"stdlib_heapsort", "stdlib_mergesort", "stdlib_introsort",
         "stdlib_qsort"}

StableSorts ==
    {"insertion_sort", "insertion_sort_byswap", "binary_insertion_sort",
     "binary_insertion_sort_byrotate", "bubble_sort",
     "bubble_sort_nonadaptive", "bubble_sort_maxadaptive", "gnome_sort",
     "mergesort_topdown", "mergesort_topdown_iterative",
     "mergesort_bottomup_iterative"}

----------------------------------------------------------------------------
\* C1: every one of the 25 hand-written functions leaves the vector
\* non-decreasing: when it returns no element is greater than a later one,
\* and the is_sorted check of test_one reports OK.
C1_Sorted ==
    /\ (pc = "return" /\ Order[k] \in HandWritten) => NonDecreasing(c)
    /\ pc = "test_one" =>
          \A i \in 1..Len(out) :
              out[i].f \in HandWritten =>
                  NonDecreasing(out[i].c) /\ out[i].ok

C1_Witness ==
    /\ \A f \in HandWritten : Ran(f) /\ NonDecreasing(Report(f).c)
    /\ Len(v) = MaxLen
    /\ ~NonDecreasing(v)

\* C2: every one of the 25 hand-written functions returns a vector of the
\* length of its input that holds the same elements, each as many times.
C2_Permutation ==
    /\ (pc = "return" /\ Order[k] \in HandWritten) =>
          SameElements(c, v) /\ SameKeys(c, v)
    /\ pc = "test_one" =>
          \A i \in 1..Len(out) :
              out[i].f \in HandWritten =>
                  SameElements(out[i].c, v) /\ SameKeys(out[i].c, v)

C2_Witness ==
    /\ \A f \in HandWritten :
          Ran(f) /\ Report(f).c # v /\ SameElements(Report(f).c, v)
    /\ Len(v) = MaxLen
    /\ HasTies(v)

\* C3: every one of the 25 hand-written functions terminates on every
\* input: the run of the tests reaches the point where all of them have
\* returned.
C3_Termination == <>(pc = "test_one" /\ \A f \in HandWritten : Ran(f))

C3_Witness ==
    /\ pc = "test_one"
    /\ \A f \in HandWritten : Ran(f)
    /\ Len(v) = MaxLen
    /\ ~NonDecreasing(v)

\* C4: the insertion sorts, the bubble sorts, gnome sort and the mergesorts
\* are stable: elements of equal key are left in the order of their
\* positions in the input.
C4_Stable ==
    /\ (pc = "return" /\ Order[k] \in StableSorts) => StableOrder(c)
    /\ pc = "test_one" =>
          \A i \in 1..Len(out) :
              out[i].f \in StableSorts => StableOrder(out[i].c)

C4_Witness ==
    /\ \A f \in StableSorts : Ran(f) /\ StableOrder(Report(f).c)
                                     /\ Report(f).c # v
    /\ HasTies(v)
    /\ \E i, j \in 1..Len(v) : i < j /\ v[j].key < v[i].key
                                     /\ \E h \in 1..Len(v) : h # i /\ v[h].key = v[i].key

\* C5: on an empty and on a one-element vector every one of the 25
\* hand-written functions returns with the vector as it was and touches no
\* position outside of it (nor fails the assertion on the gaps).
C5_SmallNoop ==
    Len(v) <= 1 =>
        /\ faults = {}
        /\ pc # "fault"
        /\ (pc = "return" /\ Order[k] \in HandWritten) => c = v
        /\ \A i \in 1..Len(out) : out[i].f \in HandWritten => out[i].c = v

C5_Witness ==
    /\ \A f \in HandWritten : Ran(f) /\ Report(f).c = v
    /\ Len(v) = 1
    /\ faults = {}

\* C6: for every generator and every length n >= 1 the gaps are emitted in
\* strictly increasing order, every gap is less than n, and for n > 1 the
\* first gap emitted is 1.
StrictlyIncreasing(gaps) ==
    \A i \in 1..(Len(gaps) - 1) : gaps[i] < gaps[i + 1]

C6_GapSequence ==
    (pc = "gaps" /\ L.len >= 1) =>
        /\ StrictlyIncreasing(L.gaps)
        /\ \A i \in 1..Len(L.gaps) : L.gaps[i] < L.len
        /\ L.len > 1 => L.gaps # <<>> /\ L.gaps[1] = 1

\* C7: the three mergesorts leave the same element at every position.
C7_MergesortsAgree ==
    pc = "test_one" =>
    \A f, g \in {"mergesort_topdown", "mergesort_topdown_iterative",
                 "mergesort_bottomup_iterative"} :
        Ran(f) /\ Ran(g) => Report(f).c = Report(g).c

C7_Witness ==
    /\ Ran("mergesort_topdown")
    /\ Ran("mergesort_topdown_iterative")
    /\ Ran("mergesort_bottomup_iterative")
    /\ Len(v) = MaxLen
    /\ HasTies(v)
    /\ Report("mergesort_topdown").c # v
    /\ Report("mergesort_bottomup_iterative").c = Report("mergesort_topdown").c
    /\ Report("mergesort_topdown_iterative").c = Report("mergesort_topdown").c

\* C8: each quicksort with an explicit stack leaves the same element at
\* every position as the recursive quicksort it is the counterpart of.
C8_QuicksortsAgree ==
    pc = "test_one" =>
    \A f \in {"quicksort_lomuto_simple", "quicksort_lomuto",
              "quicksort_hoare"} :
        LET g == IF f = "quicksort_lomuto_simple"
                   THEN "quicksort_lomuto_simple_iterative"
                   ELSE IF f = "quicksort_lomuto"
                          THEN "quicksort_lomuto_iterative"
                          ELSE "quicksort_hoare_iterative"
        IN Ran(f) /\ Ran(g) => Report(f).c = Report(g).c

C8_Witness ==
    /\ AllRan
    /\ Len(v) = MaxLen
    /\ HasTies(v)
    /\ \A f \in {"quicksort_lomuto_simple", "quicksort_lomuto",
                 "quicksort_hoare"} : Report(f).c # v
    /\ Report("quicksort_hoare").c = Report("quicksort_hoare_iterative").c
    /\ Report("quicksort_lomuto").c = Report("quicksort_lomuto_iterative").c
    /\ Report("quicksort_lomuto_simple").c
           = Report("quicksort_lomuto_simple_iterative").c
    /\ ~StableOrder(Report("quicksort_hoare").c)

\* C9: heapsort and heapsort_byswap leave the same element at every
\* position, and their vectors are the same after every sift_down call.
C9_HeapsortsAgree ==
    pc = "test_one" /\ Ran("heapsort") /\ Ran("heapsort_byswap") =>
        /\ Report("heapsort").c = Report("heapsort_byswap").c
        /\ Report("heapsort").events = Report("heapsort_byswap").events

C9_Witness ==
    /\ Ran("heapsort")
    /\ Ran("heapsort_byswap")
    /\ Len(v) = MaxLen
    /\ HasTies(v)
    /\ Report("heapsort").c # v
    /\ Len(Report("heapsort").events) > MaxLen
    /\ Report("heapsort").events = Report("heapsort_byswap").events
    /\ ~StableOrder(Report("heapsort").c)

\* C10: in quicksort_hoare and quicksort_hoare_iterative the two scanners of
\* detail::partitions::hoare read and swap only positions of the range the
\* call was given: the left one stays below last and the right one does not
\* go below first.
InHoare == pc \in {"hoare_left", "hoare_right", "hoare_swap"}

C10_ScannersInRange ==
    /\ "scanner_overrun" \notin faults
    /\ Order[IF k > NumAlgs THEN NumAlgs ELSE k]
           \in {"quicksort_hoare", "quicksort_hoare_iterative"}
         => "out_of_range" \notin faults
    /\ InHoare =>
         /\ fr.lo <= fr.first /\ fr.first < fr.hi
         /\ fr.lo <= fr.last /\ fr.last <= fr.hi

\* The right scanner has come down to the pivot at the front of the range,
\* or all the elements of the range are equal to the pivot.
C10_Witness ==
    /\ pc = "hoare_swap"
    /\ faults = {}
    /\ Len(v) = MaxLen
    /\ \/ fr.last = fr.lo
       \/ \A i \in fr.lo..(fr.hi - 1) : At(c, i).key = At(c, fr.lo).key

----------------------------------------------------------------------------
\* detail::partitions::hoare has just returned to quicksort_hoare or to
\* quicksort_hoare_iterative, and the range it was called on.
HoareReturned ==
    \/ pc = "quicksort_hoare" /\ stack # <<>> /\ Top(stack).at = "hoare"
    \/ pc = "quicksort_hoare_iterative_push"

HoareRange ==
    IF pc = "quicksort_hoare"
      THEN [first |-> Top(stack).first, last |-> Top(stack).last]
      ELSE [first |-> L.first, last |-> L.last]

\* C11: when detail::partitions::hoare returns mid to either Hoare quicksort,
\* first < mid < last, every element of [first, mid) is not greater than the
\* pivot value (the element at first) and every element of [mid, last) is
\* not less than it.
C11_HoarePartition ==
    HoareReturned =>
        LET first == HoareRange.first
            last == HoareRange.last
            mid == fr.mid
            pivot == At(c, first)
        IN /\ last - first >= 3
           /\ first < mid /\ mid < last
           /\ \A i \in first..(mid - 1) : ~Less(pivot, At(c, i))
           /\ \A i \in mid..(last - 1) : ~Less(At(c, i), pivot)

C11_Witness ==
    /\ HoareReturned
    /\ HoareRange.last - HoareRange.first = MaxLen
    /\ fr.mid > HoareRange.first + 1
    /\ \E i \in HoareRange.first..(fr.mid - 1) :
          Less(At(c, i), At(c, HoareRange.first))
    /\ \E i \in fr.mid..(HoareRange.last - 1) :
          Less(At(c, HoareRange.first), At(c, i))

----------------------------------------------------------------------------
\* sift_down of heapsort or of heapsort_byswap is about to call
\* detail::pick_child on a node that has both children.
SiftingWithBothChildren ==
    /\ pc \in {"heapsort_sift_down", "heapsort_byswap_sift_down"}
    /\ fr.parent * 2 + 2 < L.len

\* C12 as stated: with both children present, pick_child chooses the right
\* child whenever the right child is not smaller than the left one, ties
\* included.
C12_RightWinsTies ==
    SiftingWithBothChildren =>
        LET left == fr.parent * 2 + 1
            right == left + 1
        IN ~Less(At(c, right), At(c, left))
              => pick_child(c, L.len, fr.parent) = right

\* C12 as amended: with both children present, pick_child chooses the right
\* child exactly when the left child is less than the right child; when the
\* two children compare equal the left child is chosen.  The child chosen is
\* never less than the other child.
C12_LeftWinsTies ==
    SiftingWithBothChildren =>
        LET left == fr.parent * 2 + 1
            right == left + 1
            child == pick_child(c, L.len, fr.parent)
        IN /\ child \in {left, right}
           /\ child = right <=> Less(At(c, left), At(c, right))
           /\ At(c, left).key = At(c, right).key => child = left
           /\ ~Less(At(c, child), At(c, left))
           /\ ~Less(At(c, child), At(c, right))

C12_Witness ==
    /\ SiftingWithBothChildren
    /\ At(c, fr.parent * 2 + 1).key = At(c, fr.parent * 2 + 2).key
    /\ pick_child(c, L.len, fr.parent) = fr.parent * 2 + 1

----------------------------------------------------------------------------
\* An outer iteration of binary_insertion_sort or of
\* binary_insertion_sort_byrotate is about to take the key at right.
BinaryInsertionStep ==
    /\ pc \in {"binary_insertion_sort_for",
               "binary_insertion_sort_byrotate_for"}
    /\ L.right < Len(c)

PositionOf(s, x) == CHOOSE p \in 0..(Len(s) - 1) : At(s, p) = x

\* The first position of [0, right) whose element is not less than key, and
\* right when there is none.
FirstNotLess(s, right, key) ==
    CHOOSE p \in 0..right :
        /\ p = right \/ ~Less(At(s, p), key)
        /\ \A q \in 0..(p - 1) : Less(At(s, q), key)

\* The first position of [0, right) whose element is greater than key, and
\* right when there is none.
FirstGreater(s, right, key) ==
    CHOOSE p \in 0..right :
        /\ p = right \/ Less(key, At(s, p))
        /\ \A q \in 0..(p - 1) : ~Less(key, At(s, q))

\* C13 as stated: every outer iteration of the two binary insertion sorts
\* puts the key taken from right at the first position of the sorted prefix
\* whose element is not less than the key.
C13_InsertAtFirstNotLess ==
    [][BinaryInsertionStep =>
          PositionOf(c', At(c, L.right))
              = FirstNotLess(c, L.right, At(c, L.right))]_vars

\* C13 as amended: every outer iteration of the two binary insertion sorts
\* puts the key taken from right at the first position of the sorted prefix
\* whose element is greater than the key, after every element equal to it.
C13_InsertAtFirstGreater ==
    [][BinaryInsertionStep =>
          PositionOf(c', At(c, L.right))
              = FirstGreater(c, L.right, At(c, L.right))]_vars

\* An iteration has put the element that was at right - 1 between an equal
\* element and a greater one.
C13_Witness ==
    /\ pc \in {"binary_insertion_sort_for",
               "binary_insertion_sort_byrotate_for"}
    /\ L.right >= 3
    /\ \E p \in 1..(L.right - 2) :
          /\ At(c, p).tag = L.right - 1
          /\ At(c, p - 1).key = At(c, p).key
          /\ Less(At(c, p), At(c, p + 1))

----------------------------------------------------------------------------
\* The exponents that give every term up to MaxGapLen of the sequences below.
MaxExp == 7

\* 9*4^i - 9*2^i + 1 interleaved with 4^i - 3*2^i + 1: 1, 5, 19, 41, 109, ...
InterleavedTerms ==
    {9 * 4^i - 9 * 2^i + 1 : i \in 0..MaxExp}
        \cup {4^i - 3 * 2^i + 1 : i \in 2..MaxExp}

\* 1 followed by 4^(i+1) + 3*2^i + 1: 1, 8, 23, 77, 281, 1073, ...
ShiftedTerms == {1} \cup {4^(i + 1) + 3 * 2^i + 1 : i \in 0..MaxExp}

SedgewickEmitted == pc = "gaps" /\ L.generator = "sedgewick"

Emitted == {L.gaps[i] : i \in 1..Len(L.gaps)}

\* C14 as stated: every gap the Sedgewick generator emits is a term of
\* 1, 5, 19, 41, 109, ..., and every such term less than n is emitted.
C14_SedgewickInterleaved ==
    SedgewickEmitted =>
        /\ Emitted \subseteq InterleavedTerms
        /\ \A t \in InterleavedTerms : t < L.len => t \in Emitted

\* C14 as amended: every gap the Sedgewick generator emits is a term of
\* 1, 8, 23, 77, 281, ... (1, then 4^(i+1) + 3*2^i + 1 for i = 0, 1, ...),
\* and every such term less than n is emitted.
C14_SedgewickShifted ==
    SedgewickEmitted =>
        /\ Emitted \subseteq ShiftedTerms
        /\ \A t \in ShiftedTerms : t < L.len => t \in Emitted

C14_Witness ==
    /\ SedgewickEmitted
    /\ L.len = MaxGapLen
    /\ {1, 8, 23, 77, 281, 1073} \subseteq Emitted

----------------------------------------------------------------------------
\* The function test_one has called and that has not returned to it yet.
Running(f) == pc # "test_one" /\ k <= NumAlgs /\ Order[k] = f

SpanOfTwo(e) == e.e = "merge" /\ e.at[3] - e.at[1] >= 2

\* The merge calls on spans of at least two elements, in the order made.
MergesOfTwo(es) == SelectSeq(es, SpanOfTwo)

IsPrefix(s, t) == Len(s) <= Len(t) /\ \A i \in 1..Len(s) : s[i] = t[i]

\* C15: the detail::merge calls mergesort_topdown_iterative makes on spans of
\* at least two elements are the calls of mergesort_topdown on the same
\* input, the same (first1, first2, last2) in the same order: at every point
\* of its run the calls made so far are the first calls of mergesort_topdown,
\* and when it returns they are all of them, so that no right branch is
\* skipped or visited twice.
C15_SameMergeOrder ==
    /\ Running("mergesort_topdown_iterative") =>
          IsPrefix(MergesOfTwo(events), Report("mergesort_topdown").events)
    /\ (pc = "test_one" /\ Ran("mergesort_topdown_iterative")) =>
          MergesOfTwo(Report("mergesort_topdown_iterative").events)
              = Report("mergesort_topdown").events

C15_Witness ==
    /\ pc = "test_one"
    /\ Ran("mergesort_topdown_iterative")
    /\ Len(v) = MaxLen
    /\ Len(Report("mergesort_topdown").events) >= 3
    /\ Len(Report("mergesort_topdown_iterative").events)
          > Len(Report("mergesort_topdown").events)
    /\ MergesOfTwo(Report("mergesort_topdown_iterative").events)
          = Report("mergesort_topdown").events

----------------------------------------------------------------------------
\* C16: on every non-empty range detail::partitions::lomuto returns a
\* position mid of [first, last); the element at mid is then the element that
\* was at first on entry, every element of [first, mid) is less than it and
\* every element of (mid, last) is not less than it; and until the final swap
\* no swap writes the slot first, which keeps the pivot.
C16_LomutoPartition ==
    /\ pc = "lomuto" =>
          /\ fr.first <= fr.mid /\ fr.mid < fr.cur /\ fr.cur <= fr.last
          /\ At(c, fr.first) = At(v, fr.first)
    /\ pc = "lomuto_returned" =>
          /\ L.first <= fr.mid /\ fr.mid < L.last
          /\ At(c, fr.mid) = At(v, L.first)
          /\ \A i \in L.first..(fr.mid - 1) : Less(At(c, i), At(c, fr.mid))
          /\ \A i \in (fr.mid + 1)..(L.last - 1) :
                ~Less(At(c, i), At(c, fr.mid))
          /\ faults = {}

C16_Witness ==
    /\ pc = "lomuto_returned"
    /\ L.last - L.first = MaxLen
    /\ L.first < fr.mid /\ fr.mid < L.last - 1
    /\ \E i \in (fr.mid + 1)..(L.last - 1) : At(c, i).key = At(c, fr.mid).key
    /\ c # v

----------------------------------------------------------------------------
\* No element of s[0, len) is less than either of its children in s[0, len).
IsMaxHeap(s, len) ==
    \A i \in 0..(len - 1) :
        /\ 2 * i + 1 < len => ~Less(At(s, i), At(s, 2 * i + 1))
        /\ 2 * i + 2 < len => ~Less(At(s, i), At(s, 2 * i + 2))

\* C17: in heapsort and heapsort_byswap on two or more elements, the build
\* loop passes sift_down only positions of the range; when it ends the whole
\* range is a binary max-heap; and after every turn of the extraction loop
\* [0, len) is a max-heap, [len, n) is non-decreasing and no element of
\* [0, len) is greater than an element of [len, n).
C17_HeapInvariant ==
    /\ (pc \in {"heapsort_for", "heapsort_byswap_for"} /\ L.parent >= 0) =>
          L.parent < Len(c)
    /\ pc \in {"heapsort_sift_down", "heapsort_byswap_sift_down"} =>
          0 <= fr.parent /\ fr.parent < L.len /\ L.len <= Len(c)
    /\ (pc \in {"heapsort_for", "heapsort_byswap_for"} /\ L.parent < 0) =>
          IsMaxHeap(c, Len(c))
    /\ pc \in {"heapsort_while", "heapsort_byswap_while"} =>
          /\ 1 <= L.len /\ L.len <= Len(c)
          /\ IsMaxHeap(c, L.len)
          /\ \A i, j \in L.len..(Len(c) - 1) :
                i < j => ~Less(At(c, j), At(c, i))
          /\ \A i \in 0..(L.len - 1) : \A j \in L.len..(Len(c) - 1) :
                ~Less(At(c, j), At(c, i))

C17_Witness ==
    /\ pc \in {"heapsort_while", "heapsort_byswap_while"}
    /\ Len(c) = MaxLen
    /\ L.len = MaxLen - 1
    /\ L.len >= 3
    /\ Less(At(c, 1), At(c, 0))
    /\ ~NonDecreasing(v)

----------------------------------------------------------------------------
\* s is gap-sorted: no element is greater than the one gap places after it.
KSorted(s, gap) ==
    \A i \in 0..(Len(s) - 1 - gap) : ~Less(At(s, i + gap), At(s, i))

ShellsortNames ==
    {"shellsort_hibbard", "shellsort_3smooth", "shellsort_sedgewick",
     "shellsort_tokuda", "shellsort_quasi_ciura"}

\* C18: detail::shellsort applies the gaps from the largest emitted down to
\* the smallest; when the pass for a gap is complete the vector is sorted
\* for that gap and for every gap applied before it, so that no pass undoes
\* what an earlier one established; and insertion_sort_subsequence touches
\* only positions of the range.
C18_GapPasses ==
    /\ pc = "shellsort_for_each" =>
          \A j \in (L.g + 1)..Len(L.gaps) : KSorted(c, L.gaps[j])
    /\ pc \in {"shellsort_for", "insertion_sort_subsequence_for",
               "insertion_sort_subsequence_shift"} =>
          /\ L.gap = L.gaps[L.g]
          /\ \A j \in (L.g + 1)..Len(L.gaps) : L.gap < L.gaps[j]
          /\ \A j \in 1..(L.g - 1) : L.gaps[j] < L.gap
    /\ pc = "insertion_sort_subsequence_shift" =>
          /\ 0 <= fr.first + fr.left /\ fr.first + fr.left < Len(c)
          /\ fr.left # 0 => 0 <= fr.first + fr.left - fr.gap
    /\ (k <= NumAlgs /\ Order[k] \in ShellsortNames) =>
          "out_of_range" \notin faults /\ pc # "fault"

C18_Witness ==
    /\ pc = "shellsort_for_each"
    /\ L.g = 1
    /\ Len(L.gaps) >= 3
    /\ Len(c) = MaxLen
    /\ ~NonDecreasing(c)
    /\ ~KSorted(v, L.gaps[2])
    /\ ~KSorted(v, L.gaps[3])
    /\ KSorted(c, L.gaps[2])
    /\ KSorted(c, L.gaps[3])

----------------------------------------------------------------------------
\* One of the four quicksorts that select the median of three is about to
\* call detail::sorted_after_pivot_selection, and the range it passes.
SelectionCall ==
    \/ /\ pc \in {"quicksort_lomuto", "quicksort_hoare"}
       /\ stack # <<>>
       /\ Top(stack).at = "call"
    \/ /\ pc \in {"quicksort_lomuto_iterative_while",
                  "quicksort_hoare_iterative_while"}
       /\ stack # <<>>

SelectionRange ==
    IF pc \in {"quicksort_lomuto", "quicksort_hoare"}
      THEN [first |-> Top(stack).first, last |-> Top(stack).last]
      ELSE [first |-> Top(stack)[1], last |-> Top(stack)[2]]

\* The element at m is a median of the elements at the positions of three:
\* one of the other two is not greater and one is not less.
IsMedian(s, m, three) ==
    /\ m \in three
    /\ \E x \in three \ {m} : ~Less(At(s, m), At(s, x))
    /\ \E y \in three \ {m} : ~Less(At(s, y), At(s, m))

\* C19: detail::median_of_three returns one of its three positions whose
\* element is a median of the three, ties included; so when
\* sorted_after_pivot_selection returns false, on three or more elements,
\* some position after first holds an element not less than the front one
\* and some position after first one not greater.  On fewer than three
\* elements it returns true with the range sorted, and no partition is made:
\* the partitions of these quicksorts are called on ranges of three or more.
C19_MedianOfThree ==
    /\ SelectionCall =>
          LET first == SelectionRange.first
              last == SelectionRange.last
              selected == sorted_after_pivot_selection(c, first, last)
          IN IF last - first < 3
               THEN /\ selected.sorted
                    /\ \A i, j \in first..(last - 1) :
                          i < j => ~Less(At(selected.c, j), At(selected.c, i))
                    /\ SameElements(selected.c, c)
               ELSE LET p == first
                        q == midpoint(first, last)
                        r == last - 1
                    IN /\ IsMedian(c, median_of_three(c, p, q, r), {p, q, r})
                       /\ ~selected.sorted
                       /\ At(selected.c, first)
                             = At(c, median_of_three(c, p, q, r))
                       /\ \E i \in (first + 1)..(last - 1) :
                             ~Less(At(selected.c, i), At(selected.c, first))
                       /\ \E i \in (first + 1)..(last - 1) :
                             ~Less(At(selected.c, first), At(selected.c, i))
    /\ (pc = "lomuto" /\ fr.ret \in {"quicksort_lomuto",
                                     "quicksort_lomuto_iterative_push"}) =>
          fr.last - fr.first >= 3
    /\ InHoare => fr.hi - fr.lo >= 3

C19_Witness ==
    /\ SelectionCall
    /\ SelectionRange.last - SelectionRange.first >= 3
    /\ LET p == SelectionRange.first
           q == midpoint(SelectionRange.first, SelectionRange.last)
           r == SelectionRange.last - 1
       IN /\ median_of_three(c, p, q, r) = r
          /\ Less(At(c, p), At(c, r))
          /\ Less(At(c, r), At(c, q))

----------------------------------------------------------------------------
InMerge == pc \in {"merge", "merge_move"}

\* C20, the buffer: aux is empty whenever no detail::merge call is under
\* way, so on entry to and on return from every call, and during a call it
\* holds the elements taken so far, never more than the span [first1, last2)
\* has.
AuxWithinSpan ==
    /\ ~InMerge => aux = <<>>
    /\ InMerge =>
          /\ Len(aux) = (fr.cur1 - fr.first1) + (fr.cur2 - fr.first2)
          /\ Len(aux) <= fr.last2 - fr.first1
          /\ fr.last2 - fr.first1 <= Len(c)
          /\ fr.first1 <= fr.cur1 /\ fr.cur1 <= fr.first2
          /\ fr.first2 <= fr.cur2 /\ fr.cur2 <= fr.last2
    /\ (pc = "merge" /\ fr.cur1 = fr.first1 /\ fr.cur2 = fr.first2) =>
          aux = <<>>

\* C20, the writes: a step of detail::merge leaves every element outside of
\* [first1, last2) as it is.
MergeWritesSpan ==
    InMerge =>
        /\ Len(c') = Len(c)
        /\ \A i \in 0..(Len(c) - 1) :
              (i < fr.first1 \/ i >= fr.last2) => At(c', i) = At(c, i)

\* C20: in the three mergesorts the auxiliary buffer is empty on entry to and
\* on return from every detail::merge call, never holds more elements than
\* the span being merged, and a merge writes only positions of
\* [first1, last2).
C20_AuxBuffer == [](AuxWithinSpan) /\ [][MergeWritesSpan]_vars

C20_Witness ==
    /\ pc = "merge_move"
    /\ fr.last2 - fr.first1 = MaxLen
    /\ fr.first1 = 0
    /\ Len(aux) = MaxLen - 1
    /\ c # v

----------------------------------------------------------------------------
\* The least e with 2^e >= n, for n >= 1.
CeilLog2(n) == CHOOSE e \in 0..n : 2^e >= n /\ \A d \in 0..(e - 1) : 2^d < n

\* C21: in mergesort_topdown_iterative on n >= 1 elements the stack of
\* pending intervals never holds more than ceil(log2 n) + 1 entries, every
\* stacked interval is non-empty and lies inside the one below it, and the
\* stack is empty when the function returns.
C21_StackDepth ==
    (Running("mergesort_topdown_iterative") /\ Len(c) >= 1) =>
        /\ Len(stack) <= CeilLog2(Len(c)) + 1
        /\ \A i \in 1..Len(stack) :
              /\ 0 <= stack[i][1]
              /\ stack[i][1] < stack[i][2]
              /\ stack[i][2] <= Len(c)
        /\ \A i \in 2..Len(stack) :
              /\ stack[i - 1][1] <= stack[i][1]
              /\ stack[i][2] <= stack[i - 1][2]
        /\ pc = "return" => stack = <<>>

C21_Witness ==
    /\ Running("mergesort_topdown_iterative")
    /\ Len(c) = MaxLen
    /\ Len(stack) = CeilLog2(MaxLen) + 1
    /\ stack[2][1] > stack[1][1]
    /\ c # v

====
